---- MODULE Spec2Model ----
(***************************************************************************)
(* alitaOS realtime tool dispatch.                                         *)
(*                                                                         *)
(* Two components are modelled:                                            *)
(*   - the browser-side intent extractor and dedup / in-flight guard       *)
(*     (the JavaScript embedded in app/alita_streamlit.py: tryHandleTool,  *)
(*     runAndRender and the two data-channel listeners);                   *)
(*   - the FastAPI proxy (app/realtime_proxy.py: /sdp and /tool).          *)
(*                                                                         *)
(* JavaScript / Python strings that the code inspects are sequences of     *)
(* tokens (records [k, a, b]); JSON values are records [t, s, o].          *)
(***************************************************************************)
EXTENDS Integers, Sequences, FiniteSets, TLC

(***************************************************************************)
(* JSON values                                                             *)
(***************************************************************************)
Str(s) == [t |-> "str", s |-> s, o |-> <<>>]
Num(s) == [t |-> "num", s |-> s, o |-> <<>>]
Obj(p) == [t |-> "obj", s |-> "", o |-> p]
Undefined == [t |-> "undef", s |-> "", o |-> <<>>]
ParseError == [t |-> "error", s |-> "", o |-> <<>>]

\* JavaScript truthiness of a JSON value
Truthy(v) ==
    \/ v.t = "obj"
    \/ v.t = "str" /\ v.s # ""
    \/ v.t = "num" /\ v.s # "0"

\* obj[k]: the value of the last member named k, undefined when there is none
Get(v, k) ==
    IF v.t = "obj" /\ \E i \in 1..Len(v.o) : v.o[i][1] = k
    THEN LET i == CHOOSE i \in 1..Len(v.o) :
                     /\ v.o[i][1] = k
                     /\ \A j \in (i+1)..Len(v.o) : v.o[j][1] # k
         IN v.o[i][2]
    ELSE Undefined

\* a || b
OrElse(a, b) == IF Truthy(a) THEN a ELSE b

(***************************************************************************)
(* Tokens of the texts the extractor inspects                              *)
(***************************************************************************)
Tok(k, a, b) == [k |-> k, a |-> a, b |-> b]
LB == Tok("{", "", "")
RB == Tok("}", "", "")
\* "a":"b" inside a JSON object
Member(a, b) == Tok("member", a, b)
\* "a": followed by a nested object
KeyTok(a) == Tok("key", a, "")
\* a plain word of assistant speech
Word(a) == Tok("word", a, "")
\* search("a")
SearchCall(a) == Tok("search(", a, "")

HasTok(str, k) == \E i \in 1..Len(str) : str[i].k = k

(***************************************************************************)
(* JSON.parse over a token sequence: an object is LB member* RB, a member  *)
(* is a scalar member token or a key token followed by an object.          *)
(***************************************************************************)
ParseFail == [ok |-> FALSE, pairs |-> <<>>, next |-> 0]

RECURSIVE ParseMembers(_, _)
ParseMembers(c, i) ==
    IF i > Len(c) THEN ParseFail
    ELSE IF c[i].k = "}" THEN [ok |-> TRUE, pairs |-> <<>>, next |-> i + 1]
    ELSE IF c[i].k = "member" THEN
        LET r == ParseMembers(c, i + 1)
        IN IF r.ok
           THEN [ok |-> TRUE,
                 pairs |-> << <<c[i].a, Str(c[i].b)>> >> \o r.pairs,
                 next |-> r.next]
           ELSE ParseFail
    ELSE IF c[i].k = "key" /\ i + 1 <= Len(c) /\ c[i + 1].k = "{" THEN
        LET inner == ParseMembers(c, i + 2)
        IN IF ~inner.ok THEN ParseFail
           ELSE LET r == ParseMembers(c, inner.next)
                IN IF r.ok
                   THEN [ok |-> TRUE,
                         pairs |-> << <<c[i].a, Obj(inner.pairs)>> >> \o r.pairs,
                         next |-> r.next]
                   ELSE ParseFail
    ELSE ParseFail

JSONParse(c) ==
    IF Len(c) >= 2 /\ c[1].k = "{"
    THEN LET r == ParseMembers(c, 2)
         IN IF r.ok /\ r.next = Len(c) + 1 THEN Obj(r.pairs) ELSE ParseError
    ELSE ParseError

(***************************************************************************)
(* Tool calls and the dedup key                                            *)
(***************************************************************************)
ToolCall(name, args) == [name |-> name, args |-> args]
NoTool == [name |-> "<none>", args |-> Undefined]

\* Array.prototype.sort() on the member names the model uses (code-unit order)
KeyOrder == <<"args", "description", "max_results", "name", "prompt",
              "provider", "query", "size", "style", "tool">>
KeyRank(k) == CHOOSE i \in 1..Len(KeyOrder) : KeyOrder[i] = k

\* the members p of an object in the sorted order of their names
SortedMembers(p) ==
    [i \in 1..Len(p) |->
        p[CHOOSE j \in 1..Len(p) :
              i = 1 + Cardinality({m \in 1..Len(p) :
                                      KeyRank(p[m][1]) < KeyRank(p[j][1])})]]

RECURSIVE StableStringify(_), JoinMembers(_, _), StringifyUnsorted(_), JoinUnsorted(_, _)

\* a faulty stringify that keeps the members in insertion order
JoinUnsorted(p, i) ==
    IF i > Len(p) THEN ""
    ELSE "\"" \o p[i][1] \o "\":" \o StringifyUnsorted(p[i][2])
         \o (IF i < Len(p) THEN "," ELSE "") \o JoinUnsorted(p, i + 1)
StringifyUnsorted(v) ==
    IF v.t = "str" THEN "\"" \o v.s \o "\""
    ELSE IF v.t = "num" THEN v.s
    ELSE IF v.t = "obj" THEN "{" \o JoinUnsorted(v.o, 1) \o "}"
    ELSE "undefined"

\* keys.map(k => JSON.stringify(k) + ':' + stableStringify(obj[k])).join(',')
\* from member i of the sorted members p
JoinMembers(p, i) ==
    IF i > Len(p) THEN ""
    ELSE "\"" \o p[i][1] \o "\":" \o StableStringify(p[i][2])
         \o (IF i < Len(p) THEN "," ELSE "") \o JoinMembers(p, i + 1)

\* stableStringify: the JSON text of a value, the members of every object
\* sorted by name.  The strings of the model need no escaping.
StableStringify(v) ==
    IF v.t = "str" THEN "\"" \o v.s \o "\""
    ELSE IF v.t = "num" THEN v.s
    ELSE IF v.t = "obj" THEN "{" \o JoinMembers(SortedMembers(v.o), 1) \o "}"
    ELSE "undefined"

\* key = tool.name + '|' + stableStringify(tool.args || {})
KeyOf(tool) == tool.name \o "|" \o StableStringify(OrElse(tool.args, Obj(<<>>)))

(***************************************************************************)
(* normalizeTool: the ordered heuristics turning a parsed object into a    *)
(* tool call                                                               *)
(***************************************************************************)
\* the name as it appears in the key (string coercion of tool.name)
NameString(v) ==
    IF v.t = "str" \/ v.t = "num" THEN v.s
    ELSE IF v.t = "undef" THEN "undefined"
    ELSE "[object Object]"

\* small / medium / large -> pixel sizes, anything else unchanged
FriendlySize(size) ==
    IF size.t # "str" THEN size
    ELSE IF size.s = "small" THEN Str("512x512")
    ELSE IF size.s = "medium" THEN Str("1024x1024")
    ELSE IF size.s = "large" THEN Str("1792x1024")
    ELSE size

ImageCall(prompt, size, style) ==
    ToolCall("image.generate",
             Obj(<< <<"prompt", prompt>>, <<"size", FriendlySize(size)>> >>
                 \o (IF Truthy(style) THEN << <<"style", style>> >> ELSE <<>>)))

SearchCallArgs(query, maxResults, provider) ==
    Obj(<< <<"query", query>> >>
        \o (IF maxResults.t = "undef" THEN <<>> ELSE << <<"max_results", maxResults>> >>)
        \o (IF Truthy(provider) THEN << <<"provider", provider>> >> ELSE <<>>))

\* act.includes('world_leader') || act.includes('current_leader') || ...
IsLeaderAction(act) ==
    act \in {"world_leader", "current_leader", "check_current_world_leader"}

NormalizeTool(obj) ==
    LET tool == Get(obj, "tool")
        name == Get(obj, "name")
        fn == Get(obj, "function")
        arguments == Get(obj, "arguments")
        input == Get(obj, "input")
        action == Get(obj, "action")
        country == OrElse(Get(obj, "country"), OrElse(Get(obj, "region"), Get(obj, "target")))
        \* (typeof obj.prompt === 'string' && obj.prompt) ? obj.prompt
        \*   : (typeof obj.description === 'string' ? obj.description : null)
        prompt == IF Get(obj, "prompt").t = "str" /\ Truthy(Get(obj, "prompt"))
                  THEN Get(obj, "prompt")
                  ELSE IF Get(obj, "description").t = "str"
                       THEN Get(obj, "description")
                       ELSE Undefined
    IN IF obj.t # "obj" THEN NoTool
       ELSE IF tool.t = "obj"
         THEN ToolCall(NameString(Get(tool, "name")), OrElse(Get(tool, "args"), Obj(<<>>)))
       ELSE IF name.t = "str" /\ Truthy(name)
         THEN ToolCall(name.s, OrElse(Get(obj, "args"), Obj(<<>>)))
       ELSE IF /\ fn.t = "str" /\ fn.s \in {"search", "web_search"}
               /\ Truthy(OrElse(Get(arguments, "query"), Get(arguments, "q")))
         THEN ToolCall("search.web",
                       SearchCallArgs(OrElse(Get(arguments, "query"), Get(arguments, "q")),
                                      Undefined, Get(arguments, "provider")))
       ELSE IF action.t = "str" /\ IsLeaderAction(action.s)
         THEN ToolCall("search.web",
                       SearchCallArgs(IF Truthy(country)
                                      THEN Str("current leader of " \o country.s)
                                      ELSE Str("current world leaders"),
                                      Num("6"), Undefined))
       ELSE IF /\ fn.t = "str" /\ fn.s = "generate_image" /\ Truthy(arguments)
               /\ Truthy(OrElse(Get(arguments, "prompt"), Get(arguments, "description")))
         THEN ImageCall(OrElse(Get(arguments, "prompt"), Get(arguments, "description")),
                        OrElse(Get(arguments, "size"), Str("1024x1024")),
                        OrElse(Get(arguments, "style"), Get(arguments, "image_style")))
       ELSE IF Truthy(prompt)
         THEN ImageCall(prompt, OrElse(Get(obj, "size"), Str("1024x1024")), Get(obj, "style"))
       ELSE IF Get(obj, "query").t = "str" /\ Truthy(Get(obj, "query"))
         THEN ToolCall("search.web",
                       SearchCallArgs(Get(obj, "query"),
                                      OrElse(Get(obj, "max_results"), Num("6")),
                                      Get(obj, "provider")))
       ELSE IF Get(obj, "prompt").t = "str" /\ ~Truthy(Get(obj, "query"))
         THEN ImageCall(Get(obj, "prompt"), OrElse(Get(obj, "size"), Str("1024x1024")),
                        Get(obj, "style"))
       ELSE IF Truthy(input) /\ Truthy(OrElse(Get(input, "prompt"), Get(input, "description")))
         THEN ImageCall(OrElse(Get(input, "prompt"), Get(input, "description")),
                        OrElse(Get(input, "size"), Str("1024x1024")), Get(input, "style"))
       ELSE NoTool

(***************************************************************************)
(* detectAndRunFromText: the tool call the phrase rules find in a text     *)
(***************************************************************************)
FirstTok(txt, k) == CHOOSE i \in 1..Len(txt) :
                        /\ txt[i].k = k /\ txt[i].a # ""
                        /\ \A j \in 1..(i - 1) : ~(txt[j].k = k /\ txt[j].a # "")
HasFilled(txt, k) == \E i \in 1..Len(txt) : txt[i].k = k /\ txt[i].a # ""
\* txt.match(re) without the g flag: the leftmost match, whatever its group
Leftmost(txt, k) == CHOOSE i \in 1..Len(txt) :
                        /\ txt[i].k = k
                        /\ \A j \in 1..(i - 1) : txt[j].k # k
\* a faulty test that takes the first search(...) whose group is not empty
SearchCallFilled(txt) == HasFilled(txt, "search(")
\* m && m[2]: the group of the leftmost search(...) is not empty
SearchCallFound(txt) == HasTok(txt, "search(") /\ txt[Leftmost(txt, "search(")].a # ""
HasQueryMember(txt) ==
    \E i \in 1..Len(txt) : txt[i].k \in {"member", "key"} /\ txt[i].a = "query"

\* the text a token stands for
TokText(tok) ==
    CASE tok.k = "search(" -> "search(\"" \o tok.a \o "\")"
      [] tok.k = "searchfor" -> "search for " \o tok.a
      [] tok.k = "timein" -> "time in " \o tok.a
      [] tok.k = "imageof" -> "image of " \o tok.a
      [] tok.k = "member" -> "\"" \o tok.a \o "\":\"" \o tok.b \o "\""
      [] tok.k = "key" -> "\"" \o tok.a \o "\":"
      [] tok.k \in {"{", "}", "\\{"} -> tok.k
      [] OTHER -> tok.a

RECURSIVE TextOf(_)
TextOf(txt) ==
    IF Len(txt) = 0 THEN ""
    ELSE IF Len(txt) = 1 THEN TokText(txt[1])
    ELSE TokText(txt[1]) \o " " \o TextOf(Tail(txt))

\* the style keyword sniffed from the lowercased text, in the code's order
StyleOrder == <<"photorealistic", "watercolor", "3d", "anime", "cartoon",
                "line art", "oil painting">>
StyleName(w) == IF w = "line art" THEN "line-art"
                ELSE IF w = "oil painting" THEN "oil-painting" ELSE w
SniffStyle(txt) ==
    LET has(w) == \E i \in 1..Len(txt) : txt[i].k = "style" /\ txt[i].a = w
    IN IF \E n \in 1..Len(StyleOrder) : has(StyleOrder[n])
       THEN LET n == CHOOSE n \in 1..Len(StyleOrder) :
                         /\ has(StyleOrder[n])
                         /\ \A m \in 1..(n - 1) : ~has(StyleOrder[m])
            IN Str(StyleName(StyleOrder[n]))
       ELSE Undefined

DetectFromText(txt) ==
    IF Len(txt) = 0 THEN NoTool
    \* search("...")
    ELSE IF SearchCallFound(txt)
      THEN ToolCall("search.web",
                    SearchCallArgs(Str(txt[Leftmost(txt, "search(")].a), Num("6"), Undefined))
    \* search for ...
    ELSE IF HasFilled(txt, "searchfor")
      THEN ToolCall("search.web",
                    SearchCallArgs(Str(txt[FirstTok(txt, "searchfor")].a), Num("6"), Undefined))
    \* time in ... / what time is it in ...
    ELSE IF HasFilled(txt, "timein")
      THEN ToolCall("search.web",
                    SearchCallArgs(Str("current time in " \o txt[FirstTok(txt, "timein")].a),
                                   Num("3"), Undefined))
    \* a JSON payload in the text: the test needs a backslash before the brace
    ELSE IF HasTok(txt, "\\{") /\ HasQueryMember(txt) /\ NormalizeTool(JSONParse(txt)) # NoTool
      THEN NormalizeTool(JSONParse(txt))
    \* recency marker and topic marker: the text itself is the query
    ELSE IF HasTok(txt, "recency") /\ HasTok(txt, "topic")
      THEN ToolCall("search.web", SearchCallArgs(Str(TextOf(txt)), Num("6"), Undefined))
    \* generate an image of ... / image of ...
    ELSE IF HasFilled(txt, "imageof")
      THEN ToolCall("image.generate",
                    Obj(<< <<"prompt", Str(txt[FirstTok(txt, "imageof")].a)>>,
                           <<"size", Str("1024x1024")>> >>
                        \o (IF Truthy(SniffStyle(txt))
                            THEN << <<"style", SniffStyle(txt)>> >> ELSE <<>>)))
    ELSE NoTool

(***************************************************************************)
(* scanCandidates: the balanced {...} slices of a string                   *)
(***************************************************************************)
RECURSIVE ScanFrom(_, _, _, _, _)
ScanFrom(str, i, depth, startIdx, list) ==
    IF i > Len(str) THEN list
    ELSE IF str[i].k = "{"
      THEN ScanFrom(str, i + 1, depth + 1, IF depth = 0 THEN i ELSE startIdx, list)
    ELSE IF str[i].k = "}"
      THEN LET d == IF depth > 0 THEN depth - 1 ELSE depth
           IN IF d = 0 /\ startIdx # 0
              THEN ScanFrom(str, i + 1, d, 0, Append(list, SubSeq(str, startIdx, i)))
              ELSE ScanFrom(str, i + 1, d, startIdx, list)
    ELSE ScanFrom(str, i + 1, depth, startIdx, list)

ScanCandidates(str) == ScanFrom(str, 1, 0, 0, <<>>)

\* the first candidate that parses and normalizes to a tool, NoTool when none does
FirstToolOf(cands) ==
    IF \E i \in 1..Len(cands) : NormalizeTool(JSONParse(cands[i])) # NoTool
    THEN LET i == CHOOSE i \in 1..Len(cands) :
                     /\ NormalizeTool(JSONParse(cands[i])) # NoTool
                     /\ \A j \in 1..(i - 1) : NormalizeTool(JSONParse(cands[j])) = NoTool
         IN NormalizeTool(JSONParse(cands[i]))
    ELSE NoTool

(***************************************************************************)
(* Realtime events delivered on the data channel                           *)
(***************************************************************************)
NoRid == ""
Rids == {"resp_1", "resp_2"}
Listeners == {"dc.onmessage", "pc.ondatachannel"}

\* type, response id, the delta / text / transcript string, the other fields
Event(type, rid, text, obj) == [type |-> type, rid |-> rid, text |-> text, obj |-> obj]
NoEvent == Event("", NoRid, <<>>, Obj(<<>>))

DeltaTexts == { <<LB, Member("query", "a"), RB>>,
                <<LB, Member("query", "b")>>,
                <<RB>> }
DoneTexts == { <<Word("sure"), SearchCall("a")>>,
               <<SearchCall("b")>>,
               <<Word("hello")>> }
DirectObjects == { Obj(<< <<"name", Str("search.web")>>,
                          <<"args", Obj(<< <<"max_results", Num("6")>>,
                                           <<"query", Str("a")>> >>)>> >>) }

Events ==
    {Event(ty, "resp_1", <<>>, Obj(<<>>)) : ty \in {"response.created", "response.done"}}
    \cup {Event("response.text.delta", "resp_1", d, Obj(<<>>)) : d \in DeltaTexts}
    \cup {Event("response.text.done", "resp_1", tx, Obj(<<>>)) : tx \in DoneTexts}
    \cup {Event("response.text.done", "resp_2", tx, Obj(<<>>)) :
            tx \in { <<Word("sure"), SearchCall("a")>> }}
    \cup {Event("response.audio_transcript.done", "resp_1", tx, Obj(<<>>)) :
            tx \in { <<Word("sure"), SearchCall("a")>> }}
    \cup {Event("conversation.item.created", r, <<>>, o) :
            r \in {"resp_1", NoRid}, o \in DirectObjects}

\* getResponseId: response_id, response.id, or the id of a created / done event
GetResponseId(e) == e.rid

(***************************************************************************)
(* State                                                                   *)
(***************************************************************************)
VARIABLES
    now,                 \* Date.now(), milliseconds
    recentTools,         \* window.__recentTools: key -> time of last invocation
    inFlightTools,       \* window.__inFlightTools: set of keys
    handledResponseIds,  \* window.__handledResponseIds: response id -> time
    lastEvent,           \* window.__lastEvent: the fields getResponseId reads
    activeResponseId,    \* window.__activeResponseId
    toolBuf,             \* the buffered JSON-like delta text
    pendingTool,         \* /tool requests awaiting their response: key -> count
    issued,              \* history: /tool requests issued so far: key -> count
    submitted,           \* history: the runAndRender invocation of the last event [key, by]
    dispatchedAt,        \* history: key -> [at, by] of its last /tool request
    attributed,          \* history: response id -> /tool requests issued by its events
    nEvents,             \* number of events delivered so far
    shown,               \* the text the last event appended to the transcript
    dcState,             \* dc.readyState
    wire,                \* what the last handler sent: data-channel messages, /tool
    settledWith          \* history: how the last settled /tool request ended

guardVars == <<now, recentTools, inFlightTools, handledResponseIds, lastEvent,
               activeResponseId, toolBuf, pendingTool, issued, submitted,
               dispatchedAt, attributed, nEvents, shown, dcState, wire,
               settledWith>>

\* the dedup window of runAndRender
DEDUP_WINDOW_MS == 12000

\* bounds of the environment
MaxEvents == 3
MaxNow == 18000
TickMs == DEDUP_WINDOW_MS \div 2


\* maps with a growing domain
Has(f, x) == x \in DOMAIN f
Put(f, x, v) == [y \in DOMAIN f \cup {x} |-> IF y = x THEN v ELSE f[y]]
Count(f, x) == IF x \in DOMAIN f THEN f[x] ELSE 0
Inc(f, x) == Put(f, x, Count(f, x) + 1)

NotSubmitted == [key |-> KeyOf(NoTool), by |-> ""]

\* how a /tool request ends: the fetch rejects, or resolves to a JSON result;
\* complete: the result carries the fields its renderer asks for
ToolResult(settled, success, type, complete) ==
    [settled |-> settled, success |-> success, type |-> type, complete |-> complete]
NoResult == ToolResult("", FALSE, "", FALSE)
ToolResults ==
    { ToolResult("rejected", FALSE, "", FALSE),
      ToolResult("resolved", FALSE, "", FALSE),
      ToolResult("resolved", TRUE, "image", TRUE),
      ToolResult("resolved", TRUE, "time", TRUE),
      ToolResult("resolved", TRUE, "search", TRUE),
      ToolResult("resolved", TRUE, "file", TRUE) }

InitGuard ==
    /\ now = 0
    /\ recentTools = <<>>
    /\ inFlightTools = {}
    /\ handledResponseIds = <<>>
    /\ lastEvent = [type |-> "", rid |-> NoRid]
    /\ activeResponseId = NoRid
    /\ toolBuf = <<>>
    /\ pendingTool = <<>>
    /\ issued = <<>>
    /\ submitted = NotSubmitted
    /\ dispatchedAt = <<>>
    /\ attributed = <<>>
    /\ nEvents = 0
    /\ shown = <<>>
    /\ dcState = "open"
    /\ wire = <<>>
    /\ settledWith = NoResult

(***************************************************************************)
(* tryHandleTool: what the handler decides for one event                   *)
(***************************************************************************)
\* ret: the handler's return value; run: the tool handed to runAndRender
Plan(ret, run, buf) == [ret |-> ret, run |-> run, buf |-> buf]

\* data.type.endsWith('.delta') && typeof data.delta === 'string'
IsTextDelta(e) == e.type \in {"response.text.delta", "response.audio_transcript.delta"}

DeltaPath(e, buf) ==
    LET nb == buf \o e.text
    IN IF Len(buf) > 0 \/ HasTok(e.text, "{")
       THEN IF ~HasTok(nb, "{") THEN Plan(FALSE, NoTool, nb)
            ELSE IF HasTok(nb, "}")
                 THEN Plan(TRUE, FirstToolOf(ScanCandidates(nb)), <<>>)
                 ELSE Plan(TRUE, NoTool, nb)
       ELSE Plan(FALSE, NoTool, buf)

DirectPath(e, buf, handled) ==
    LET rid == GetResponseId(e)
        fromText == DetectFromText(e.text)
        fromJSON == NormalizeTool(JSONParse(e.text))
        fromObj == NormalizeTool(e.obj)
    IN IF Get(e.obj, "timezone").t = "str" THEN Plan(TRUE, NoTool, buf)
       ELSE IF rid # NoRid /\ Has(handled, rid) THEN Plan(TRUE, NoTool, buf)
       ELSE IF e.type = "response.text.done" /\ fromText # NoTool
         THEN Plan(TRUE, fromText, buf)
       ELSE IF e.type = "response.text.done" /\ HasQueryMember(e.text) /\ fromJSON # NoTool
         THEN Plan(TRUE, fromJSON, buf)
       ELSE IF e.type = "response.audio_transcript.done" /\ fromText # NoTool
         THEN Plan(TRUE, fromText, buf)
       ELSE IF /\ e.type = "response.audio_transcript.done"
               /\ HasQueryMember(e.text) /\ HasTok(e.text, "\\{") /\ fromJSON # NoTool
         THEN Plan(TRUE, fromJSON, buf)
       ELSE IF fromObj # NoTool THEN Plan(TRUE, fromObj, buf)
       ELSE Plan(FALSE, NoTool, buf)

TryHandleTool(e, buf, handled) ==
    IF IsTextDelta(e) THEN DeltaPath(e, buf) ELSE DirectPath(e, buf, handled)

(***************************************************************************)
(* runAndRender: the dedup / in-flight guard and the dispatch              *)
(***************************************************************************)
\* recentTools.has(key) && now - recentTools.get(key) < 12000
WithinWindow(key, recent, t) == Has(recent, key) /\ t - recent[key] < DEDUP_WINDOW_MS

\* faulty guards: one that never returns early, one without the in-flight test
SuppressedNever(key, recent, inflight, t) == FALSE
SuppressedWindowOnly(key, recent, inflight, t) == WithinWindow(key, recent, t)

\* the two early returns of runAndRender
Suppressed(key, recent, inflight, t) ==
    WithinWindow(key, recent, t) \/ key \in inflight

\* .finally(() => { try { window.__inFlightTools.delete(key) } catch {} }):
\* key is a const of the try block of runAndRender, so it is out of scope in
\* the callback; the ReferenceError is swallowed and nothing is deleted.
FinallyDelete(inflight, key) == inflight

\* a faulty guard that records no invocation
RememberNothing(recent, key, t) == recent
\* recentTools.set(key, now)
Remember(recent, key, t) == Put(recent, key, t)

\* a faulty cancellation that never sends
CancelNever(state, active) == <<>>
\* cancelCurrentResponse: what it sends on the data channel
CancelCurrentResponse(state, active) ==
    IF state # "open" \/ active = NoRid THEN <<>> ELSE <<"response.cancel">>

\* requestSpokenAnswer / requestSpokenTime: what they send on the data channel
RequestSpoken(state) == IF state # "open" THEN <<>> ELSE <<"response.create">>

\* the .then callback of runAndRender: what it sends for the result
ThenSends(res, state, active) ==
    IF res.settled = "rejected" \/ ~res.success THEN <<>>
    ELSE IF res.type = "image" /\ res.complete THEN <<>>
    ELSE IF res.type = "time" /\ res.complete
    THEN CancelCurrentResponse(state, active) \o RequestSpoken(state)
    ELSE IF res.type = "search" /\ res.complete THEN RequestSpoken(state)
    ELSE <<>>

\* tool is submitted by listener l, which has just stored the event in window.__lastEvent
RunAndRender(tool, l) ==
    LET key == KeyOf(tool)
        rid == GetResponseId(lastEvent')
    IN /\ submitted' = [key |-> key, by |-> l]
       /\ IF Suppressed(key, recentTools, inFlightTools, now)
          THEN /\ wire' = <<>>
               /\ UNCHANGED <<recentTools, inFlightTools, handledResponseIds,
                               pendingTool, issued, dispatchedAt, attributed>>
          ELSE /\ recentTools' = Remember(recentTools, key, now)
               /\ inFlightTools' = inFlightTools \cup {key}
               /\ wire' = CancelCurrentResponse(dcState, activeResponseId')
                              \o <<"/tool">>
               /\ handledResponseIds' =
                      IF rid # NoRid THEN Put(handledResponseIds, rid, now)
                                     ELSE handledResponseIds
               \* runTool: fetch(url + '/tool', ...)
               /\ pendingTool' = Inc(pendingTool, key)
               /\ issued' = Inc(issued, key)
               /\ dispatchedAt' = Put(dispatchedAt, key, [at |-> now, by |-> l])
               /\ attributed' = IF rid # NoRid THEN Inc(attributed, rid) ELSE attributed

\* extractTextFromEvent: the delta of a delta event, the text of an event
\* that has one; a completed transcript is carried in another field
ExtractTextFromEvent(e) ==
    IF IsTextDelta(e) \/ e.type = "response.text.done" THEN e.text ELSE <<>>

\* if (tryHandleTool(msg)) return; const text = extractTextFromEvent(msg);
\* if (text) appendLine('assistant', text)
Appended(ret, e) == IF ret THEN <<>> ELSE ExtractTextFromEvent(e)

\* dc.onmessage / the onmessage of a channel announced by pc.ondatachannel
OnMessage(l, e) ==
    /\ dcState = "open"
    /\ nEvents < MaxEvents
    /\ nEvents' = nEvents + 1
    /\ lastEvent' = [type |-> e.type, rid |-> e.rid]
    /\ activeResponseId' =
           IF e.type = "response.created" THEN e.rid
           ELSE IF e.type = "response.done" THEN NoRid
           ELSE activeResponseId
    /\ LET plan == TryHandleTool(e, toolBuf, handledResponseIds)
       IN /\ toolBuf' = plan.buf
          /\ shown' = Appended(plan.ret, e)
          /\ IF plan.run # NoTool
             THEN RunAndRender(plan.run, l)
             ELSE /\ submitted' = NotSubmitted
                  /\ wire' = <<>>
                  /\ UNCHANGED <<recentTools, inFlightTools, handledResponseIds,
                                 pendingTool, issued, dispatchedAt, attributed>>
    /\ UNCHANGED <<now, dcState, settledWith>>

\* the /tool request of key settles (result, failure result or rejection):
\* .then / .catch, then .finally
Settle(key, res) ==
    /\ Count(pendingTool, key) > 0
    /\ pendingTool' = Put(pendingTool, key, pendingTool[key] - 1)
    /\ inFlightTools' = FinallyDelete(inFlightTools, key)
    /\ wire' = ThenSends(res, dcState, activeResponseId)
    /\ settledWith' = res
    /\ UNCHANGED <<now, recentTools, handledResponseIds, lastEvent, activeResponseId,
                   toolBuf, issued, submitted, dispatchedAt, attributed, nEvents,
                   shown, dcState>>

\* stop(): pc.close() closes the data channel
Stop ==
    /\ dcState = "open"
    /\ dcState' = "closed"
    /\ UNCHANGED <<now, recentTools, inFlightTools, handledResponseIds, lastEvent,
                   activeResponseId, toolBuf, pendingTool, issued, submitted,
                   dispatchedAt, attributed, nEvents, shown, wire, settledWith>>

\* time passes
Tick ==
    /\ now + TickMs <= MaxNow
    /\ now' = now + TickMs
    /\ UNCHANGED <<recentTools, inFlightTools, handledResponseIds, lastEvent,
                   activeResponseId, toolBuf, pendingTool, issued, submitted,
                   dispatchedAt, attributed, nEvents, shown, dcState, wire,
                   settledWith>>

NextGuard ==
    \/ \E l \in Listeners, e \in Events : OnMessage(l, e)
    \/ \E key \in DOMAIN pendingTool, res \in ToolResults : Settle(key, res)
    \/ Tick
    \/ Stop

(***************************************************************************)
(* The proxy (app/realtime_proxy.py)                                       *)
(*                                                                         *)
(* A Python str is a sequence of tokens: words, " " and punctuation.       *)
(* A value of the args mapping is a record [ty, w]: ty is its Python type  *)
(* ("absent" when the key is missing), w the tokens of a str.              *)
(***************************************************************************)
PStr(w) == [ty |-> "str", w |-> w, n |-> 0]
PInt(n) == [ty |-> "int", w |-> <<>>, n |-> n]
PNone == [ty |-> "none", w |-> <<>>, n |-> 0]
PList == [ty |-> "list", w |-> <<>>, n |-> 0]
PAbsent == [ty |-> "absent", w |-> <<>>, n |-> 0]

\* Python truthiness (a list value of the model is non-empty)
PyTruthy(v) ==
    \/ v.ty = "str" /\ v.w # <<>>
    \/ v.ty = "int" /\ v.n # 0
    \/ v.ty = "list"

\* a or b
PyOr(a, b) == IF PyTruthy(a) THEN a ELSE b

\* str.strip(): leading and trailing whitespace removed
RECURSIVE LStrip(_)
LStrip(w) == IF Len(w) > 0 /\ w[1] = " " THEN LStrip(Tail(w)) ELSE w
RECURSIVE RStrip(_)
RStrip(w) == IF Len(w) > 0 /\ w[Len(w)] = " " THEN RStrip(SubSeq(w, 1, Len(w) - 1)) ELSE w
Strip(w) == RStrip(LStrip(w))

\* str.lower() of a token
LowerTok(tk) ==
    CASE tk = "Tokyo" -> "tokyo"
      [] tk = "What" -> "what"
      [] tk = "Time" -> "time"
      [] tk = "Tavily" -> "tavily"
      [] tk = "PDF" -> "pdf"
      [] tk = "DOC" -> "doc"
      [] OTHER -> tk
Lower(w) == [i \in 1..Len(w) |-> LowerTok(w[i])]

\* the characters of the words whose spelling the code inspects
Chars(tk) ==
    CASE tk = "new" -> <<"n", "e", "w">>
      [] tk = "york" -> <<"y", "o", "r", "k">>
      [] tk = "nyc" -> <<"n", "y", "c">>
      [] tk = "los" -> <<"l", "o", "s">>
      [] tk = "angeles" -> <<"a", "n", "g", "e", "l", "e", "s">>
      [] tk = "la" -> <<"l", "a">>
      [] tk = "san" -> <<"s", "a", "n">>
      [] tk = "francisco" -> <<"f", "r", "a", "n", "c", "i", "s", "c", "o">>
      [] tk = "seattle" -> <<"s", "e", "a", "t", "t", "l", "e">>
      [] tk = "chicago" -> <<"c", "h", "i", "c", "a", "g", "o">>
      [] tk = "austin" -> <<"a", "u", "s", "t", "i", "n">>
      [] tk = "denver" -> <<"d", "e", "n", "v", "e", "r">>
      [] tk = "london" -> <<"l", "o", "n", "d", "o", "n">>
      [] tk = "paris" -> <<"p", "a", "r", "i", "s">>
      [] tk = "berlin" -> <<"b", "e", "r", "l", "i", "n">>
      [] tk = "madrid" -> <<"m", "a", "d", "r", "i", "d">>
      [] tk = "rome" -> <<"r", "o", "m", "e">>
      [] tk = "karachi" -> <<"k", "a", "r", "a", "c", "h", "i">>
      [] tk = "pakistan" -> <<"p", "a", "k", "i", "s", "t", "a", "n">>
      [] tk = "delhi" -> <<"d", "e", "l", "h", "i">>
      [] tk = "mumbai" -> <<"m", "u", "m", "b", "a", "i">>
      [] tk = "bangalore" -> <<"b", "a", "n", "g", "a", "l", "o", "r", "e">>
      [] tk = "kolkata" -> <<"k", "o", "l", "k", "a", "t", "a">>
      [] tk = "tokyo" -> <<"t", "o", "k", "y", "o">>
      [] tk = "seoul" -> <<"s", "e", "o", "u", "l">>
      [] tk = "singapore" -> <<"s", "i", "n", "g", "a", "p", "o", "r", "e">>
      [] tk = "hong" -> <<"h", "o", "n", "g">>
      [] tk = "kong" -> <<"k", "o", "n", "g">>
      [] tk = "shanghai" -> <<"s", "h", "a", "n", "g", "h", "a", "i">>
      [] tk = "beijing" -> <<"b", "e", "i", "j", "i", "n", "g">>
      [] tk = "sydney" -> <<"s", "y", "d", "n", "e", "y">>
      [] tk = "auckland" -> <<"a", "u", "c", "k", "l", "a", "n", "d">>
      [] tk = "dubai" -> <<"d", "u", "b", "a", "i">>
      [] tk = "riyadh" -> <<"r", "i", "y", "a", "d", "h">>
      [] tk = "utc" -> <<"u", "t", "c">>
      [] tk = "gmt" -> <<"g", "m", "t">>
      [] tk = "gondor" -> <<"g", "o", "n", "d", "o", "r">>
      [] tk = "atlanta" -> <<"a", "t", "l", "a", "n", "t", "a">>
      [] tk = "weather" -> <<"w", "e", "a", "t", "h", "e", "r">>
      [] OTHER -> <<tk>>

\* the characters of a str
RECURSIVE CharsOf(_)
CharsOf(w) == IF Len(w) = 0 THEN <<>> ELSE Chars(w[1]) \o CharsOf(Tail(w))

\* k in key, on characters
IsSubstring(k, key) ==
    \E i \in 0..(Len(key) - Len(k)) : SubSeq(key, i + 1, i + Len(k)) = k

\* _CITY_TZ_MAP, in insertion order
CITY_TZ_MAP == <<
    <<<<"new", " ", "york">>, "America/New_York">>,
    <<<<"nyc">>, "America/New_York">>,
    <<<<"los", " ", "angeles">>, "America/Los_Angeles">>,
    <<<<"la">>, "America/Los_Angeles">>,
    <<<<"san", " ", "francisco">>, "America/Los_Angeles">>,
    <<<<"seattle">>, "America/Los_Angeles">>,
    <<<<"chicago">>, "America/Chicago">>,
    <<<<"austin">>, "America/Chicago">>,
    <<<<"denver">>, "America/Denver">>,
    <<<<"london">>, "Europe/London">>,
    <<<<"paris">>, "Europe/Paris">>,
    <<<<"berlin">>, "Europe/Berlin">>,
    <<<<"madrid">>, "Europe/Madrid">>,
    <<<<"rome">>, "Europe/Rome">>,
    <<<<"karachi">>, "Asia/Karachi">>,
    <<<<"pakistan">>, "Asia/Karachi">>,
    <<<<"delhi">>, "Asia/Kolkata">>,
    <<<<"mumbai">>, "Asia/Kolkata">>,
    <<<<"bangalore">>, "Asia/Kolkata">>,
    <<<<"kolkata">>, "Asia/Kolkata">>,
    <<<<"tokyo">>, "Asia/Tokyo">>,
    <<<<"seoul">>, "Asia/Seoul">>,
    <<<<"singapore">>, "Asia/Singapore">>,
    <<<<"hong", " ", "kong">>, "Asia/Hong_Kong">>,
    <<<<"shanghai">>, "Asia/Shanghai">>,
    <<<<"beijing">>, "Asia/Shanghai">>,
    <<<<"sydney">>, "Australia/Sydney">>,
    <<<<"auckland">>, "Pacific/Auckland">>,
    <<<<"dubai">>, "Asia/Dubai">>,
    <<<<"riyadh">>, "Asia/Riyadh">>,
    <<<<"utc">>, "Etc/UTC">>,
    <<<<"gmt">>, "Etc/UTC">> >>

(***************************************************************************)
(* Time resolver helpers                                                   *)
(***************************************************************************)
\* tokens that are not words; the words of the model are made of letters
NonWords == {" ", ",", "-", ".", "/", "?", "!"}
IsWord(tk) == tk \notin NonWords

\* None, and a str result
NoPlace == [some |-> FALSE, place |-> <<>>]
SomePlace(w) == [some |-> TRUE, place |-> w]

\* if place:
PlaceTruthy(p) == p.some /\ p.place # <<>>

\* \s*: the first token at or after i that is not whitespace
RECURSIVE SkipSpaces(_, _)
SkipSpaces(s, i) ==
    IF i >= 1 /\ i <= Len(s) /\ s[i] = " " THEN SkipSpaces(s, i + 1) ELSE i

\* the words ws joined by \s+, matched at token i ignoring case: the index
\* after the last word, 0 when they do not match
RECURSIVE MatchWords(_, _, _)
MatchWords(s, i, ws) ==
    IF i > Len(s) \/ LowerTok(s[i]) # ws[1] THEN 0
    ELSE IF Len(ws) = 1 THEN i + 1
    ELSE IF i + 1 <= Len(s) /\ s[i + 1] = " "
         THEN MatchWords(s, SkipSpaces(s, i + 1), Tail(ws))
         ELSE 0

\* the alternatives of _TIME_REGEX before the captured group, in the order
\* the regex tries them
TimePrefixes == << <<"what", "time", "is", "it", "in">>,
                   <<"current", "time", "in">>,
                   <<"local", "time", "in">>,
                   <<"time", "in">> >>

\* the end of the first alternative that matched, 0 when none did
FirstEnd(ends) ==
    LET hits == {a \in 1..Len(ends) : ends[a] # 0}
    IN  IF hits = {} THEN 0 ELSE ends[CHOOSE a \in hits : \A b \in hits : a <= b]

PrefixEnd(s, i) ==
    FirstEnd([a \in 1..Len(TimePrefixes) |-> MatchWords(s, i, TimePrefixes[a])])

\* the captured group after a prefix that ended before token j and the
\* whitespace that ended before token g, as group(1).strip(" -,.").
\* The group is lazy and a word boundary ends it: it captures the first word
\* after the whitespace.  A group of "," and "-" only strips to "".
GroupAt(s, j, g) ==
    IF j = 0 \/ g = j \/ g > Len(s) THEN NoPlace
    ELSE IF IsWord(s[g]) THEN SomePlace(<<s[g]>>)
    ELSE IF s[g] \in {",", "-"} THEN SomePlace(<<>>)
    ELSE NoPlace

AfterPrefix(s, j) == GroupAt(s, j, SkipSpaces(s, j))

\* _TIME_REGEX tried at token i
MatchTimeAt(s, i) == AfterPrefix(s, PrefixEnd(s, i))

\* _TIME_REGEX.search: the match at the leftmost start
FirstMatch(s, starts) ==
    IF starts = {} THEN NoPlace
    ELSE MatchTimeAt(s, CHOOSE i \in starts : \A k \in starts : i <= k)

TimeSearch(s) ==
    FirstMatch(s, {i \in 1..Len(s) :
                     /\ i = 1 \/ ~IsWord(s[i - 1])
                     /\ MatchTimeAt(s, i).some})

\* _extract_place_from_query
ExtractPlaceFromQuery(q) == IF q = <<>> THEN NoPlace ELSE TimeSearch(Strip(q))

\* the tz of the first direct hit, else of the first key found within, "" for None
Lookup(direct, within) ==
    IF direct # {} THEN CITY_TZ_MAP[CHOOSE i \in direct : TRUE][2]
    ELSE IF within # {}
         THEN CITY_TZ_MAP[CHOOSE i \in within : \A k \in within : i <= k][2]
         ELSE ""

\* a faulty lookup that never tries the direct match
MapKeyToTzWithin(key) ==
    Lookup({},
           {i \in 1..Len(CITY_TZ_MAP) :
              IsSubstring(CharsOf(CITY_TZ_MAP[i][1]), CharsOf(key))})

MapKeyToTz(key) ==
    Lookup({i \in 1..Len(CITY_TZ_MAP) : CITY_TZ_MAP[i][1] = key},
           {i \in 1..Len(CITY_TZ_MAP) :
              IsSubstring(CharsOf(CITY_TZ_MAP[i][1]), CharsOf(key))})

\* _map_place_to_tz: the tz of the mapping, "" for None
MapPlaceToTz(place) ==
    IF place = <<>> THEN "" ELSE MapKeyToTz(Strip(Lower(place)))

\* place and mapped of a query, as both uses of the resolver compute them
ResolvePlace(place) ==
    [place |-> place.place,
     tz |-> IF PlaceTruthy(place) THEN MapPlaceToTz(place.place) ELSE ""]
Resolve(query) == ResolvePlace(ExtractPlaceFromQuery(query))

(***************************************************************************)
(* Requests, upstream replies and responses                                *)
(***************************************************************************)
\* args.get(k, d)
PyGet(args, k, d) == IF k \in DOMAIN args THEN args[k] ELSE d

\* the mapping with the given <<key, value>> pairs
Dict(pairs) ==
    [k \in {pairs[i][1] : i \in 1..Len(pairs)} |->
        pairs[CHOOSE i \in 1..Len(pairs) : pairs[i][1] = k][2]]

\* a request: POST /sdp with an offer body, POST /tool with a ToolPayload
\* (argsNone: the payload carries no args), GET /health
SdpRequest(offer) ==
    [path |-> "/sdp", body |-> offer, name |-> "", args |-> <<>>, argsNone |-> TRUE]
ToolPayload(name, args) ==
    [path |-> "/tool", body |-> "", name |-> name, args |-> args, argsNone |-> FALSE]
ToolPayloadNoArgs(name) ==
    [path |-> "/tool", body |-> "", name |-> name, args |-> <<>>, argsNone |-> TRUE]
HealthRequest ==
    [path |-> "/health", body |-> "", name |-> "", args |-> <<>>, argsNone |-> TRUE]
NoRequest ==
    [path |-> "", body |-> "", name |-> "", args |-> <<>>, argsNone |-> TRUE]

\* what requests.post / requests.get gives back: a reply (items counts the
\* entries of its JSON body, -1 when the body is not JSON), or an exception
Reply(status, text, items) ==
    [exc |-> "", status |-> status, text |-> text, items |-> items]
Raises(e) == [exc |-> e, status |-> 0, text |-> "", items |-> 0]
NoReply == [exc |-> "", status |-> 0, text |-> "", items |-> 0]

\* an outbound call
Call(to, body) == [to |-> to, body |-> body]

OPENAI_REALTIME_URL == "https://api.openai.com/v1/realtime"
OPENAI_IMAGES_URL == "https://api.openai.com/v1/images/generations"
TAVILY_URL == "https://api.tavily.com/search"
DDG_URL == "https://api.duckduckgo.com/"
WorldTimeUrl(tz) == "https://worldtimeapi.org/api/timezone/" \o tz

\* the response sent to the caller; raised: an exception left the handler
MakeResponse(status, media, success, type, text, detail, n) ==
    [status |-> status, media |-> media, success |-> success, type |-> type,
     text |-> text, detail |-> detail, n |-> n, raised |-> FALSE]
NoResponse == MakeResponse(0, "", "", "", "", <<>>, 0)

\* Response(content=..., media_type=..., status_code=...)
PlainResponse(content, media, status) ==
    MakeResponse(status, media, "", "", content, <<>>, 0)

\* JSONResponse({"success": False, "error": error}, status_code=status)
JSONFailure(error, status) ==
    MakeResponse(status, "application/json", "false", "", error, <<>>, 0)

\* JSONResponse({"success": True, "type": type, ...})
JSONSuccess(type, detail, n) ==
    MakeResponse(200, "application/json", "true", type, "", detail, n)

\* an exception propagates out of the handler
Unhandled(e) ==
    [status |-> 500, media |-> "", success |-> "", type |-> "", text |-> e,
     detail |-> <<>>, n |-> 0, raised |-> TRUE]

(***************************************************************************)
(* The proxy's state                                                       *)
(***************************************************************************)
VARIABLES
    OPENAI_API_KEY,   \* the voice-provider credential, "" when not configured
    TAVILY_API_KEY,   \* the search-provider credential, "" when not configured
    request,          \* the request being handled, or the last one handled
    pc,               \* "idle", "responded", or the outbound call the handler is blocked in
    loc,              \* the handler's local variables across an outbound call
    calls,            \* the outbound calls made for the request, in order
    files,            \* the files written for the request
    response,         \* the response to the request, NoResponse until it is sent
    reply,            \* what the last outbound call gave back
    accepted          \* the requests that arrived and wait for the event loop

proxyVars == <<OPENAI_API_KEY, TAVILY_API_KEY, request, pc, loc, calls, files,
               response, reply, accepted>>

NoLoc == [query |-> <<>>, provider |-> <<>>, max_results |-> 0, results |-> 0,
          tz |-> "", place |-> <<>>, first |-> NoReply]

\* a handler's step: the response it returns, or the outbound
\* call it blocks in
Return(resp, written) ==
    [pc |-> "responded", resp |-> resp, call |-> <<>>, loc |-> NoLoc, files |-> written]
Await(at, call, l) ==
    [pc |-> at, resp |-> NoResponse, call |-> <<call>>, loc |-> l, files |-> <<>>]

\* a faulty test that takes every key as configured
NotConfiguredNever(key) == FALSE
\* if not KEY:
NotConfigured(key) == key = ""

(***************************************************************************)
(* POST /sdp                                                               *)
(***************************************************************************)
\* a faulty relay that always answers 200
SdpRelayOk(r) == PlainResponse(r.text, "application/sdp", 200)
\* return Response(content=resp.text, ..., status_code=resp.status_code)
SdpRelay(r) == PlainResponse(r.text, "application/sdp", r.status)

\* a faulty error response that drops the exception text
SdpProxyErrorBare(e) == PlainResponse("Proxy error", "text/plain", 500)
\* except Exception as e: return Response(content=f"Proxy error: {e}", ...)
SdpProxyError(e) == PlainResponse("Proxy error: " \o e, "text/plain", 500)

SdpStart(req) ==
    IF NotConfigured(OPENAI_API_KEY)
    THEN Return(PlainResponse("OPENAI_API_KEY not configured", "text/plain", 500), <<>>)
    ELSE Await("sdp", Call(OPENAI_REALTIME_URL, <<req.body>>), NoLoc)

SdpResume(r) ==
    IF r.exc # "" THEN Return(SdpProxyError(r.exc), <<>>)
    ELSE Return(SdpRelay(r), <<>>)

(***************************************************************************)
(* POST /tool: image.generate                                              *)
(***************************************************************************)
\* a faulty test that accepts every prompt
PromptMissingNever(prompt) == FALSE
\* if not prompt:
PromptMissing(prompt) == ~PyTruthy(prompt)

ImageStart(args) ==
    LET prompt == PyGet(args, "prompt", PStr(<<>>))
        style == PyGet(args, "style", PNone)
    IN  IF PromptMissing(prompt)
        THEN Return(JSONFailure("prompt required", 400), <<>>)
        ELSE Await("image",
                   Call(OPENAI_IMAGES_URL,
                        prompt.w \o (IF PyTruthy(style)
                                     THEN <<"\n\nStyle: ">> \o style.w ELSE <<>>)),
                   NoLoc)

ImageResume(r) ==
    IF r.exc # "" THEN Return(JSONFailure(r.exc, 500), <<>>)
    ELSE IF r.status # 200
    THEN Return(JSONFailure("OpenAI error " \o ToString(r.status) \o ": " \o r.text,
                            r.status), <<>>)
    ELSE IF r.items < 0 THEN Return(JSONFailure("JSONDecodeError", 500), <<>>)
    ELSE IF r.items = 0 THEN Return(JSONFailure("No image data returned", 500), <<>>)
    ELSE Return(JSONSuccess("image", <<"image/png">>, 1), <<>>)

(***************************************************************************)
(* POST /tool: file.save                                                   *)
(***************************************************************************)
\* str.lstrip("."): leading dots removed
RECURSIVE LStripDots(_)
LStripDots(w) == IF Len(w) > 0 /\ w[1] = "." THEN LStripDots(Tail(w)) ELSE w

\* the last index of token tk in w, 0 when absent
LastIndex(w, tk) ==
    LET at == {i \in 1..Len(w) : w[i] = tk}
    IN  IF at = {} THEN 0 ELSE CHOOSE i \in at : \A k \in at : k <= i

\* os.path.splitext: <<root, ext>>; the extension starts at the last dot of
\* the last path component, leading dots of the component are not an extension
SplitExt(w) ==
    LET sepIndex == LastIndex(w, "/")
        dotIndex == LastIndex(w, ".")
    IN  IF dotIndex > sepIndex /\ \E i \in (sepIndex + 1)..(dotIndex - 1) : w[i] # "."
        THEN <<SubSeq(w, 1, dotIndex - 1), SubSeq(w, dotIndex, Len(w))>>
        ELSE <<w, <<>>>>

\* a faulty normalisation without the alias table
AliasNone(fmt) == fmt
\* alias.get(fmt, fmt)
Alias(fmt) ==
    CASE fmt = <<"doc">> -> <<"docx">>
      [] fmt = <<"ppt">> -> <<"pptx">>
      [] fmt = <<"xls">> -> <<"xlsx">>
      [] fmt = <<"markdown">> -> <<"md">>
      [] fmt = <<"text">> -> <<"txt">>
      [] OTHER -> fmt

\* tokens outside [A-Za-z0-9._\- ]
UnsafeTokens == {"/", "\\", ":", "*", "?", "!", ","}

\* re.sub(r"[^A-Za-z0-9._\- ]+", "_", filename): each run of unsafe
\* characters becomes one "_"
RECURSIVE Sanitize(_)
Sanitize(w) ==
    IF Len(w) = 0 THEN <<>>
    ELSE IF w[1] \in UnsafeTokens
         THEN IF Len(w) > 1 /\ w[2] \in UnsafeTokens
              THEN Sanitize(Tail(w))
              ELSE <<"_">> \o Sanitize(Tail(w))
         ELSE <<w[1]>> \o Sanitize(Tail(w))

TextFormats == {<<"txt">>, <<"md">>, <<"json">>, <<"py">>}
DocumentFormats == {<<"pdf">>, <<"docx">>, <<"csv">>, <<"xlsx">>, <<"pptx">>}

\* {"success": True, "type": "file", ..., "filename": safe, "format": fmt}
FileSuccess(safe, fmt) == [JSONSuccess("file", safe, 1) EXCEPT !.text = fmt[1]]

\* the handler of the format writes the file; io is what its import and
\* its write do: "ok", or the exception they raise
WriteSafe(safe, fmt, io) ==
    IF fmt \in TextFormats \cup DocumentFormats
    THEN IF io = "ok"
         THEN Return(FileSuccess(safe, fmt), <<safe>>)
         ELSE Return(JSONFailure(io, 500), <<>>)
    ELSE Return(JSONFailure("unsupported format", 400), <<>>)

\* safe = re.sub(...).strip()
WriteFile(filename, fmt, io) == WriteSafe(Strip(Sanitize(filename)), fmt, io)

\* if ext.lstrip(".").lower() != fmt: filename = f"{root}.{fmt}"
EnsureExt(split, filename, fmt) ==
    IF Lower(LStripDots(split[2])) # fmt THEN split[1] \o <<".">> \o fmt ELSE filename

SaveNamed(filename, fmt, io) ==
    WriteFile(EnsureExt(SplitExt(filename), filename, fmt), fmt, io)

\* if not fmt: 400; the default filename carries a date-stamp
SaveFormat(filename, fmt, io) ==
    IF fmt = <<>> THEN Return(JSONFailure("format required", 400), <<>>)
    ELSE SaveNamed(IF filename = <<>>
                   THEN <<"alita_output-", "stamp", ".">> \o fmt ELSE filename,
                   fmt, io)

\* the format inferred from the extension when none is given, then the aliases
SaveAs(filename, fmt, io) ==
    SaveFormat(filename,
               Alias(IF fmt = <<>> /\ filename # <<>>
                     THEN Lower(LStripDots(SplitExt(filename)[2])) ELSE fmt),
               io)

\* .strip() and .lower() of a value that is not a str raise inside the try
SaveArgs(nameV, fmtV, io) ==
    IF nameV.ty # "str" \/ fmtV.ty # "str"
    THEN Return(JSONFailure("AttributeError", 500), <<>>)
    ELSE SaveAs(Strip(nameV.w), Lower(Strip(fmtV.w)), io)

\* the file.save branch
FileSave(args, io) ==
    IF DOMAIN args = {} THEN SaveAs(<<>>, <<>>, io)
    ELSE SaveArgs(PyOr(PyOr(PyGet(args, "filename", PNone), PyGet(args, "name", PNone)),
                       PStr(<<>>)),
                  PyOr(PyOr(PyGet(args, "format", PNone), PyGet(args, "type", PNone)),
                       PStr(<<>>)),
                  io)

(***************************************************************************)
(* POST /tool: search.web                                                  *)
(***************************************************************************)
\* the numerals of the model
Numerals == {"0", "3", "6"}
NumeralValue(tk) == CASE tk = "0" -> 0 [] tk = "3" -> 3 [] tk = "6" -> 6

\* int(v): the number, or the exception int() raises
PyInt(v) ==
    IF v.ty = "int" THEN [exc |-> "", n |-> v.n]
    ELSE IF v.ty = "str"
    THEN LET s == Strip(v.w)
         IN  IF Len(s) = 1 /\ s[1] \in Numerals
             THEN [exc |-> "", n |-> NumeralValue(s[1])]
             ELSE [exc |-> "ValueError", n |-> 0]
    ELSE [exc |-> "TypeError", n |-> 0]

\* a faulty selection that ignores the provider given
ProviderOrDefault(given, tavilyKey) ==
    IF tavilyKey # "" THEN <<"tavily">> ELSE <<"duckduckgo">>
\* provider: the one given, else tavily when its key is configured
ProviderOr(given, tavilyKey) ==
    IF given # <<>> THEN given
    ELSE IF tavilyKey # "" THEN <<"tavily">> ELSE <<"duckduckgo">>

ParsedArgs(queryV, providerV, max, tavilyKey) ==
    [exc |-> IF queryV.ty # "str" \/ providerV.ty # "str" THEN "AttributeError"
             ELSE max.exc,
     query |-> Strip(queryV.w),
     provider |-> ProviderOr(Strip(Lower(providerV.w)), tavilyKey),
     max_results |-> max.n]

\* the three assignments that read the arguments, in order; exc is the
\* exception the first failing one raises
SearchArgs(args, tavilyKey) ==
    ParsedArgs(PyOr(PyOr(PyGet(args, "query", PNone), PyGet(args, "q", PNone)),
                    PStr(<<>>)),
               PyOr(PyGet(args, "provider", PNone), PStr(<<>>)),
               PyInt(PyGet(args, "max_results", PInt(6))),
               tavilyKey)

\* results[:max_results] of a list of n entries
Slice(n, m) ==
    IF m >= 0 THEN (IF n < m THEN n ELSE m)
    ELSE (IF n + m > 0 THEN n + m ELSE 0)

TimeSuccess(l) == JSONSuccess("time", l.place \o <<l.tz>>, 0)
SearchSuccess(l) == JSONSuccess("search", l.provider, l.results)

\* a faulty fallback that is tried for the free provider only
TimeFallbackFreeOnly(l, m) ==
    IF l.results = 0 /\ m.tz # "" /\ l.provider = <<"duckduckgo">>
    THEN Await("time_fallback", Call(WorldTimeUrl(m.tz), <<>>),
               [l EXCEPT !.tz = m.tz, !.place = m.place])
    ELSE Return(SearchSuccess(l), <<>>)
\* if not results: the time resolver again, as a fallback
TimeFallback(l, m) ==
    IF l.results = 0 /\ m.tz # ""
    THEN Await("time_fallback", Call(WorldTimeUrl(m.tz), <<>>),
               [l EXCEPT !.tz = m.tz, !.place = m.place])
    ELSE Return(SearchSuccess(l), <<>>)

\* after the providers
AfterProviders(l) == TimeFallback(l, Resolve(l.query))

\* the provider web search
ProviderSearch(l) ==
    IF l.provider = <<"tavily">> /\ ~NotConfigured(TAVILY_API_KEY)
    THEN Await("tavily", Call(TAVILY_URL, l.query), l)
    ELSE IF l.provider \in {<<"tavily">>, <<"duckduckgo">>}
    THEN Await("duckduckgo", Call(DDG_URL, l.query),
               [l EXCEPT !.provider = <<"duckduckgo">>])
    ELSE AfterProviders(l)

\* a faulty resolver that asks the time API whether or not the place maps
TimeFirstUnmapped(l, m) ==
    Await("time", Call(WorldTimeUrl(m.tz), <<>>),
          [l EXCEPT !.tz = m.tz, !.place = m.place])
\* try the direct time resolver first
TimeFirst(l, m) ==
    IF m.tz # ""
    THEN Await("time", Call(WorldTimeUrl(m.tz), <<>>),
               [l EXCEPT !.tz = m.tz, !.place = m.place])
    ELSE ProviderSearch(l)

\* an exception of the assignments leaves the handler; if not query: 400
SearchParsed(a) ==
    IF a.exc # "" THEN Return(Unhandled(a.exc), <<>>)
    ELSE IF a.query = <<>> THEN Return(JSONFailure("query required", 400), <<>>)
    ELSE TimeFirst([NoLoc EXCEPT !.query = a.query, !.provider = a.provider,
                                 !.max_results = a.max_results],
                   Resolve(a.query))

SearchStart(args) == SearchParsed(SearchArgs(args, TAVILY_API_KEY))

\* a faulty resolver that discards the answer of the time API
TimeResumeDiscarded(r, l) == ProviderSearch(l)
\* a faulty resolver that reports the failure of the time API
TimeResumeLoud(r, l) ==
    IF r.exc = "" /\ r.status = 200 /\ r.items >= 0
    THEN Return(TimeSuccess(l), <<>>)
    ELSE Return(JSONFailure("time lookup failed", 502), <<>>)
\* the direct time resolver's call returned
TimeResume(r, l) ==
    IF r.exc = "" /\ r.status = 200 /\ r.items >= 0
    THEN Return(TimeSuccess(l), <<>>)
    ELSE ProviderSearch(l)

TavilyResume(r, l) ==
    IF r.exc # "" THEN Return(JSONFailure(r.exc, 500), <<>>)
    ELSE IF r.status # 200
    THEN Return(JSONFailure("Search error " \o ToString(r.status) \o ": " \o r.text,
                            r.status), <<>>)
    ELSE IF r.items < 0 THEN Return(JSONFailure("JSONDecodeError", 500), <<>>)
    ELSE AfterProviders([l EXCEPT !.results = Slice(r.items, l.max_results)])

\* the longest upstream body reported whole
BODY_LIMIT == 500
\* stands for the one character U+2026
Ellipsis == "~"

\* body = (body[:500] + "\u2026") if len(body) > 500 else body
BodyShown(body) ==
    IF Len(body) > BODY_LIMIT THEN SubSeq(body, 1, BODY_LIMIT) \o Ellipsis ELSE body

DdgFailure(first) ==
    JSONFailure("provider=duckduckgo status=" \o ToString(first.status)
                    \o " body=" \o BodyShown(first.text), first.status)

DdgResume(r, l) ==
    IF r.exc # "" THEN Return(JSONFailure(r.exc, 500), <<>>)
    ELSE IF r.status = 200
    THEN IF r.items < 0 THEN Return(JSONFailure("JSONDecodeError", 500), <<>>)
         ELSE AfterProviders([l EXCEPT !.results = Slice(r.items, l.max_results)])
    ELSE IF r.status = 202
    THEN AfterProviders([l EXCEPT !.results = Slice(0, l.max_results)])
    ELSE Await("duckduckgo_retry", Call(DDG_URL, l.query), [l EXCEPT !.first = r])

DdgRetryResume(r2, l) ==
    IF r2.exc = "" /\ r2.status = 200
    THEN IF r2.items < 0 THEN Return(JSONFailure("JSONDecodeError", 500), <<>>)
         ELSE AfterProviders([l EXCEPT !.results = Slice(r2.items, l.max_results)])
    ELSE Return(DdgFailure(l.first), <<>>)

TimeFallbackResume(r, l) ==
    IF r.exc = "" /\ r.status = 200 /\ r.items >= 0
    THEN Return(TimeSuccess(l), <<>>)
    ELSE Return(SearchSuccess(l), <<>>)

(***************************************************************************)
(* POST /tool                                                              *)
(***************************************************************************)
ToolExec(payload, io) ==
    LET args == IF payload.argsNone THEN <<>> ELSE payload.args
    IN  IF NotConfigured(OPENAI_API_KEY)
        THEN Return(JSONFailure("OPENAI_API_KEY not configured", 500), <<>>)
        ELSE IF payload.name = "image.generate" THEN ImageStart(args)
        ELSE IF payload.name = "file.save" THEN FileSave(args, io)
        ELSE IF payload.name = "search.web" THEN SearchStart(args)
        ELSE Return(JSONFailure("unknown tool: " \o payload.name, 400), <<>>)

\* the handler resumes from the outbound call it is blocked in
Resume(at, r, l) ==
    CASE at = "sdp" -> SdpResume(r)
      [] at = "image" -> ImageResume(r)
      [] at = "time" -> TimeResume(r, l)
      [] at = "tavily" -> TavilyResume(r, l)
      [] at = "duckduckgo" -> DdgResume(r, l)
      [] at = "duckduckgo_retry" -> DdgRetryResume(r, l)
      [] at = "time_fallback" -> TimeFallbackResume(r, l)

(***************************************************************************)
(* The requests and upstream replies of the model                          *)
(***************************************************************************)
ApiKeys == {"", "sk-openai"}
TavilyKeys == {"", "tvly-key"}
OPENAI_REALTIME_MODEL == "gpt-4o-realtime-preview-2024-12-17"

\* the mapping with the given pairs, a pair with PAbsent standing for a key
\* the mapping does not have
Args(pairs) == Dict(SelectSeq(pairs, LAMBDA p : p[2] # PAbsent))

Offers == {"v=0 offer-1", "v=0 offer-2"}

\* s repeated n times
RECURSIVE Repeated(_, _)
Repeated(s, n) == IF n = 0 THEN "" ELSE s \o Repeated(s, n - 1)

Replies == {Reply(200, "v=0 answer", 2), Reply(201, "v=0 answer", 2),
            Reply(200, "{}", 0), Reply(200, "<html>", -1), Reply(202, "", 0),
            Reply(429, "rate limited", 0), Reply(500, "upstream down", 0),
            Reply(503, Repeated("0123456789", 51), 0),
            Raises("timed out")}

Prompts == {PAbsent, PNone, PStr(<<>>), PStr(<<"a", " ", "cat">>)}
Styles == {PAbsent, PStr(<<"watercolor">>)}

Queries == {PAbsent, PStr(<<>>), PStr(<<" ">>), PInt(5), PStr(<<"weather">>),
            PStr(<<"time", " ", "in", " ", "Tokyo">>),
            PStr(<<"time", " ", "in", " ", "gondor">>)}
Providers == {PAbsent, PStr(<<"Tavily">>), PStr(<<"duckduckgo">>), PStr(<<"bing">>),
              PInt(7)}
MaxResults == {PAbsent, PNone, PInt(0), PInt(3), PStr(<<"3">>), PStr(<<"abc">>)}

Filenames == {PAbsent, PStr(<<"notes">>), PStr(<<"report", ".", "PDF">>),
              PStr(<<".", ".", "/", "etc", "/", "passwd">>), PInt(5)}
Formats == {PAbsent, PStr(<<"txt">>), PStr(<<"doc">>), PStr(<<"exe">>)}
Types == {PAbsent, PStr(<<"markdown">>)}
IoOutcomes == {"ok", "OSError"}

ToolPayloads ==
    {ToolPayload("image.generate", Args(<< <<"prompt", p>>, <<"style", s>> >>)) :
        p \in Prompts, s \in Styles}
    \cup {ToolPayload("search.web",
                      Args(<< <<"query", q>>, <<"provider", p>>, <<"max_results", m>> >>)) :
             q \in Queries, p \in Providers, m \in MaxResults}
    \cup {ToolPayload("search.web", Args(<< <<"q", PStr(<<"weather">>)>> >>))}
    \cup {ToolPayload("file.save",
                      Args(<< <<"filename", f>>, <<"format", t>>, <<"type", y>>,
                              <<"content", PStr(<<"hello">>)>> >>)) :
             f \in Filenames, t \in Formats, y \in Types}
    \cup {ToolPayload("shell.exec", Args(<< <<"query", PStr(<<"weather">>)>> >>))}
    \cup {ToolPayloadNoArgs(n) :
             n \in {"image.generate", "search.web", "file.save", "shell.exec", ""}}

(***************************************************************************)
(* The proxy's actions                                                     *)
(***************************************************************************)
InitProxy ==
    /\ OPENAI_API_KEY \in ApiKeys
    /\ TAVILY_API_KEY \in TavilyKeys
    /\ request = NoRequest
    /\ pc = "idle"
    /\ loc = NoLoc
    /\ calls = <<>>
    /\ files = <<>>
    /\ response = NoResponse
    /\ reply = NoReply
    /\ accepted = <<>>

\* a request arrives and its handler runs to its response or to its first
\* outbound call
Receive(req, start) ==
    /\ pc = "idle"
    /\ accepted' = accepted
    /\ request' = req
    /\ \E step \in {start} :
           /\ pc' = step.pc
           /\ loc' = step.loc
           /\ calls' = step.call
           /\ files' = step.files
           /\ response' = step.resp
    /\ reply' = NoReply
    /\ UNCHANGED <<OPENAI_API_KEY, TAVILY_API_KEY>>

Health ==
    Receive(HealthRequest,
            Return(MakeResponse(200, "application/json", "", "health", "ok",
                                <<OPENAI_REALTIME_MODEL>>, 0), <<>>))

Sdp(offer) == Receive(SdpRequest(offer), SdpStart(SdpRequest(offer)))

Tool(payload, io) == Receive(payload, ToolExec(payload, io))

\* the outbound call the handler is blocked in returns or raises, and the
\* handler runs to its response or to its next outbound call
UpstreamReturns(r) ==
    /\ pc \notin {"idle", "responded"}
    /\ \E step \in {Resume(pc, r, loc)} :
           /\ pc' = step.pc
           /\ loc' = step.loc
           /\ calls' = calls \o step.call
           /\ files' = files \o step.files
           /\ response' = step.resp
    /\ reply' = r
    /\ UNCHANGED <<OPENAI_API_KEY, TAVILY_API_KEY, request, accepted>>

\* the response has been sent; the proxy waits for the next request
Sent ==
    /\ pc = "responded"
    /\ request' = NoRequest
    /\ pc' = "idle"
    /\ loc' = NoLoc
    /\ calls' = <<>>
    /\ files' = <<>>
    /\ response' = NoResponse
    /\ reply' = NoReply
    /\ UNCHANGED <<OPENAI_API_KEY, TAVILY_API_KEY, accepted>>

NextProxy ==
    \/ Health
    \/ \E offer \in Offers : Sdp(offer)
    \/ \E payload \in ToolPayloads, io \in IoOutcomes : Tool(payload, io)
    \/ \E r \in Replies : UpstreamReturns(r)
    \/ Sent

(***************************************************************************)
(* One assistant response: its text streamed as deltas, then completed     *)
(***************************************************************************)
VARIABLES
    utterance,  \* the text of the response
    parts,      \* the deltas of the text that are still to arrive
    kind        \* "response.text" or "response.audio_transcript"

streamVars == <<utterance, parts, kind>>

\* the deltas of one text; a completed event follows them
MaxParts == MaxEvents - 1

\* the divisions of a text into at most n consecutive deltas
RECURSIVE SplitsInto(_, _)
SplitsInto(u, n) ==
    {<<u>>} \cup
    (IF n > 1
     THEN UNION { { <<SubSeq(u, 1, i)>> \o rest :
                      rest \in SplitsInto(SubSeq(u, i + 1, Len(u)), n - 1) } :
                  i \in 1..(Len(u) - 1) }
     ELSE {})

\* {"tool":{"name":"search.web","args":{"query":"a"}}}
NestedToolText ==
    <<LB, KeyTok("tool"), LB, Member("name", "search.web"), KeyTok("args"),
      LB, Member("query", "a"), RB, RB, RB>>

\* texts of the assistant: JSON that names no tool, JSON that does not
\* parse, a flat and a nested tool object, objects that name a tool the
\* proxy does not have, and speech that meets one or several of the phrase
\* rules
Utterances ==
    { <<LB, Member("note", "hi"), RB>>,
      <<LB, Member("name", "shell.exec"), RB>>,
      <<LB, KeyTok("tool"), LB, Member("name", "shell.exec"), RB, RB>>,
      <<LB, Member("query", "b")>>,
      <<LB, KeyTok("note"), LB, Member("query", "b"), RB>>,
      <<LB, Member("query", "a"), RB>>,
      NestedToolText,
      <<Word("sure"), SearchCall("a")>>,
      <<SearchCall(""), SearchCall("a")>>,
      <<Tok("timein", "tokyo", ""), SearchCall("a"), SearchCall("b")>>,
      <<Tok("searchfor", "cats", ""), Tok("timein", "tokyo", "")>>,
      <<Tok("timein", "tokyo", ""), Tok("recency", "latest", ""), Tok("topic", "news", "")>>,
      <<Tok("recency", "latest", ""), Tok("topic", "news", ""), Tok("imageof", "a cat", "")>>,
      <<Tok("imageof", "a cat", ""), Tok("style", "anime", "")>>,
      <<Word("hello")>> }

(***************************************************************************)
(* The place table as a function of the place                              *)
(***************************************************************************)
VARIABLES
    place,   \* the place _map_place_to_tz is called with
    zone     \* the zone it returned, "" for None, "?" before the call

placeVars == <<place, zone>>

TableKeys == {CITY_TZ_MAP[i][1] : i \in 1..Len(CITY_TZ_MAP)}

\* the places of the model: the table keys, bare, padded, capitalised and
\* inside a longer place, two keys in one place, and places without a key
Places ==
    TableKeys
    \cup {<<" ">> \o k \o <<" ">> : k \in TableKeys}
    \cup {k \o <<" ", "city">> : k \in TableKeys}
    \cup {k1 \o <<" ">> \o k2 : k1 \in TableKeys, k2 \in TableKeys}
    \cup {<<"Tokyo">>, <<"atlanta">>, <<"gondor">>, <<"north", " ", "pole">>, <<>>}

(***************************************************************************)
(* The dedup key as a function of the tool call                            *)
(***************************************************************************)
VARIABLES
    compared,   \* two tool calls
    keyed       \* their dedup keys, "" until computed

keyVars == <<compared, keyed>>

\* args mappings: the same members in two insertion orders, a changed
\* value, a number against the string of its digits, a missing member,
\* nested mappings in two orders and with a changed inner value
ArgsMappings ==
    { Obj(<<>>),
      Obj(<< <<"query", Str("a")>>, <<"max_results", Num("6")>> >>),
      Obj(<< <<"max_results", Num("6")>>, <<"query", Str("a")>> >>),
      Obj(<< <<"query", Str("b")>>, <<"max_results", Num("6")>> >>),
      Obj(<< <<"query", Str("a")>>, <<"max_results", Str("6")>> >>),
      Obj(<< <<"query", Str("a")>> >>),
      Obj(<< <<"size", Str("small")>>,
             <<"args", Obj(<< <<"style", Str("anime")>>, <<"prompt", Str("a")>> >>)>> >>),
      Obj(<< <<"args", Obj(<< <<"prompt", Str("a")>>, <<"style", Str("anime")>> >>)>>,
             <<"size", Str("small")>> >>),
      Obj(<< <<"args", Obj(<< <<"prompt", Str("a")>>, <<"style", Str("3d")>> >>)>>,
             <<"size", Str("small")>> >>) }

ToolNames == {"search.web", "image.generate", "search.web|{}"}

ToolCalls == {ToolCall(name, args) : name \in ToolNames, args \in ArgsMappings}

InitKey ==
    /\ InitGuard /\ InitProxy
    /\ OPENAI_API_KEY = "sk-openai" /\ TAVILY_API_KEY = ""
    /\ compared \in ToolCalls \X ToolCalls
    /\ keyed = <<"", "">>
    /\ utterance = <<>> /\ parts = <<>> /\ kind = ""
    /\ place = <<>> /\ zone = "?"

\* runAndRender computes the key of one of the two calls
ComputeKey(i) ==
    /\ keyed[i] = ""
    /\ keyed' = [keyed EXCEPT ![i] = KeyOf(compared[i])]
    /\ UNCHANGED compared

NextKey == \E i \in {1, 2} : ComputeKey(i)

(***************************************************************************)
(* The streamed response, event by event                                   *)
(***************************************************************************)
InitStream ==
    /\ InitGuard /\ InitProxy
    /\ OPENAI_API_KEY = "sk-openai" /\ TAVILY_API_KEY = ""
    /\ compared = <<NoTool, NoTool>> /\ keyed = <<"", "">>
    /\ utterance \in Utterances
    /\ parts \in SplitsInto(utterance, MaxParts)
    /\ kind \in {"response.text", "response.audio_transcript"}
    /\ place = <<>> /\ zone = "?"

\* the next delta of the text arrives
DeliverDelta ==
    /\ parts # <<>>
    /\ OnMessage("dc.onmessage",
                 Event(kind \o ".delta", "resp_1", Head(parts), Obj(<<>>)))
    /\ parts' = Tail(parts)
    /\ UNCHANGED <<utterance, kind>>

\* the completed text arrives after its last delta
DeliverDone ==
    /\ parts = <<>>
    /\ lastEvent.type # kind \o ".done"
    /\ OnMessage("dc.onmessage", Event(kind \o ".done", "resp_1", utterance, Obj(<<>>)))
    /\ UNCHANGED streamVars

NextStream == DeliverDelta \/ DeliverDone

(***************************************************************************)
(* Specifications                                                          *)
(***************************************************************************)
vars == <<guardVars, proxyVars, keyVars, streamVars, placeVars>>
Init ==
    /\ InitGuard /\ InitProxy
    /\ compared = <<NoTool, NoTool>> /\ keyed = <<"", "">>
    /\ utterance = <<>> /\ parts = <<>> /\ kind = ""
    /\ place = <<>> /\ zone = "?"
Next ==
    \/ NextGuard /\ UNCHANGED <<proxyVars, keyVars, streamVars, placeVars>>
    \/ NextProxy /\ UNCHANGED <<guardVars, keyVars, streamVars, placeVars>>
Spec == Init /\ [][Next]_vars

\* the dedup key of every pair of tool calls
SpecKey == InitKey /\ [][NextKey /\ UNCHANGED <<guardVars, proxyVars, streamVars, placeVars>>]_vars

\* one streamed response in a fresh session
SpecStream == InitStream /\ [][NextStream /\ UNCHANGED <<proxyVars, keyVars, placeVars>>]_vars

\* the browser session alone, against a configured proxy at rest
SpecGuard ==
    /\ Init /\ OPENAI_API_KEY = "sk-openai" /\ TAVILY_API_KEY = ""
    /\ [][NextGuard /\ UNCHANGED <<proxyVars, keyVars, streamVars, placeVars>>]_vars

\* the proxy alone, in every configuration
SpecProxy == Init /\ [][NextProxy /\ UNCHANGED <<guardVars, keyVars, streamVars, placeVars>>]_vars

(***************************************************************************)
(* The proxy's event loop                                                  *)
(***************************************************************************)
\* requests that wait for the event loop at one time
MaxAccepted == 2

\* the requests that arrive while the proxy is at work
Arrivals ==
    { HealthRequest,
      SdpRequest("offer"),
      ToolPayload("image.generate", Args(<< <<"prompt", PStr(<<"a", " ", "cat">>)>> >>)),
      ToolPayload("search.web",
                  Args(<< <<"query", PStr(<<"weather">>)>>,
                          <<"provider", PStr(<<"duckduckgo">>)>> >>)),
      ToolPayload("search.web",
                  Args(<< <<"query", PStr(<<"weather">>)>>,
                          <<"provider", PStr(<<"Tavily">>)>> >>)) }

\* the handler of a request, run to its response or to its first outbound call
Handle(req) ==
    IF req.path = "/health"
    THEN Return(MakeResponse(200, "application/json", "", "health", "ok",
                             <<OPENAI_REALTIME_MODEL>>, 0), <<>>)
    ELSE IF req.path = "/sdp" THEN SdpStart(req)
    ELSE ToolExec(req, "ok")

\* a request arrives at the listening socket
Arrive(req) ==
    /\ Len(accepted) < MaxAccepted
    /\ accepted' = Append(accepted, req)
    /\ UNCHANGED <<OPENAI_API_KEY, TAVILY_API_KEY, request, pc, loc, calls,
                   files, response, reply>>

\* the event loop starts the handler of the request that waited longest.
\* The handlers are coroutines that make their outbound calls with the
\* blocking client: a handler keeps the loop from its first statement to
\* its return, so the loop is free only between handlers.
Serve ==
    /\ pc = "idle"
    /\ accepted # <<>>
    /\ request' = Head(accepted)
    /\ accepted' = Tail(accepted)
    /\ \E step \in {Handle(Head(accepted))} :
           /\ pc' = step.pc
           /\ loc' = step.loc
           /\ calls' = step.call
           /\ files' = step.files
           /\ response' = step.resp
    /\ reply' = NoReply
    /\ UNCHANGED <<OPENAI_API_KEY, TAVILY_API_KEY>>

NextLoop ==
    \/ \E req \in Arrivals : Arrive(req)
    \/ Serve
    \/ \E r \in Replies : UpstreamReturns(r)
    \/ Sent

\* the event loop of a configured proxy
SpecLoop ==
    /\ Init /\ OPENAI_API_KEY = "sk-openai" /\ TAVILY_API_KEY = "tvly-key"
    /\ [][NextLoop /\ UNCHANGED <<guardVars, keyVars, streamVars, placeVars>>]_vars

(***************************************************************************)
(* The place table, entry by entry                                         *)
(***************************************************************************)
\* the query "time in k"
TimeIn(k) == <<"time", " ", "in", " ">> \o k

\* search.web requests that ask for the time in a place of the table
TableRequests ==
    {ToolPayload("search.web", Args(<< <<"query", PStr(TimeIn(k))>> >>)) :
        k \in TableKeys}

NextTable ==
    \/ \E payload \in TableRequests : Tool(payload, "ok")
    \/ \E r \in Replies : UpstreamReturns(r)
    \/ Sent

\* a configured proxy asked for the time in every place of the table
SpecTable ==
    /\ Init /\ OPENAI_API_KEY = "sk-openai"
    /\ [][NextTable /\ UNCHANGED <<guardVars, keyVars, streamVars, placeVars>>]_vars

\* _map_place_to_tz is called with the place
MapPlace ==
    /\ zone = "?"
    /\ zone' = MapPlaceToTz(place)
    /\ UNCHANGED place

InitPlace ==
    /\ InitGuard /\ InitProxy
    /\ OPENAI_API_KEY = "sk-openai" /\ TAVILY_API_KEY = ""
    /\ compared = <<NoTool, NoTool>> /\ keyed = <<"", "">>
    /\ utterance = <<>> /\ parts = <<>> /\ kind = ""
    /\ place \in Places /\ zone = "?"

\* the mapping of every place
SpecPlace ==
    InitPlace /\ [][MapPlace /\ UNCHANGED <<guardVars, proxyVars, keyVars, streamVars>>]_vars


(***************************************************************************)
(* Properties of the browser-side guard                                    *)
(***************************************************************************)
IsSubmission == nEvents' # nEvents /\ submitted'.key # KeyOf(NoTool)
Pending(k) == Count(pendingTool, k)

\* C1: a tool call submitted again less than 12 s after its /tool request was
\* issued causes no further /tool request, whichever listener delivers it.
C1_OneRequestWithinWindow ==
    [][ ( /\ IsSubmission
          /\ Has(dispatchedAt, submitted'.key)
          /\ now - dispatchedAt[submitted'.key].at < DEDUP_WINDOW_MS )
        => issued' = issued ]_vars

\* two submissions of one key by different listeners inside the window, one request
C1_Witness ==
    /\ Has(dispatchedAt, submitted.key)
    /\ submitted.by # dispatchedAt[submitted.key].by
    /\ now - dispatchedAt[submitted.key].at < DEDUP_WINDOW_MS
    /\ issued[submitted.key] = 1

\* C2: the in-flight set holds exactly the keys whose /tool request has not
\* settled, and an identical call submitted after completion and more than
\* 12 s after its dispatch is executed again.
C2_InFlightIsExecuting ==
    [][ /\ inFlightTools' = {k \in DOMAIN pendingTool' : pendingTool'[k] > 0}
        /\ ( ( /\ IsSubmission
               /\ Has(dispatchedAt, submitted'.key)
               /\ Pending(submitted'.key) = 0
               /\ now - dispatchedAt[submitted'.key].at > DEDUP_WINDOW_MS )
             => Count(issued', submitted'.key) = Count(issued, submitted'.key) + 1 )
      ]_vars

\* C3: at most one /tool request is issued among the events of one response id.
C3_OneToolPerResponse ==
    \A rid \in DOMAIN attributed : attributed[rid] <= 1

\* C4: at most one /tool request is pending per dedup key.
C4_OnePendingPerKey ==
    \A k \in DOMAIN pendingTool : pendingTool[k] <= 1

\* two keys were pending together and the one dispatched later completed first
C4_Witness ==
    \E k1 \in DOMAIN pendingTool, k2 \in DOMAIN pendingTool :
        /\ k1 # k2
        /\ dispatchedAt[k1].at < dispatchedAt[k2].at
        /\ pendingTool[k1] = 1
        /\ pendingTool[k2] = 0

(***************************************************************************)
(* Properties of the proxy                                                 *)
(***************************************************************************)
\* the request has been handled and its response is being sent
Responded(path) == pc = "responded" /\ request.path = path

\* the args mapping the handler reads
ArgsOf(req) == IF req.argsNone THEN <<>> ELSE req.args

\* C5: without the voice-provider credential POST /sdp answers 500 and
\* POST /tool answers 500 with success=false whatever the tool name; the
\* handler makes no outbound call, never blocks in one, and writes no file.
C5_FailFastWithoutCredential ==
    (OPENAI_API_KEY = "" /\ request.path \in {"/sdp", "/tool"}) =>
        /\ pc = "responded"
        /\ response.status = 500
        /\ request.path = "/tool" => response.success = "false"
        /\ calls = <<>>
        /\ files = <<>>

C5_Witness ==
    /\ OPENAI_API_KEY = ""
    /\ Responded("/tool")
    /\ request.name = "file.save"
    /\ "format" \in DOMAIN ArgsOf(request)
    /\ response.status = 500

\* C6: with the credential configured and no transport exception, POST /sdp
\* has made exactly one outbound request, whose body is the offer received,
\* and its response carries the upstream status code and the upstream body,
\* for 2xx and other statuses alike.
C6_SdpRelaysUpstream ==
    (Responded("/sdp") /\ OPENAI_API_KEY # "" /\ reply.exc = "") =>
        /\ calls = <<Call(OPENAI_REALTIME_URL, <<request.body>>)>>
        /\ response.status = reply.status
        /\ response.text = reply.text

C6_Witness ==
    /\ Responded("/sdp")
    /\ OPENAI_API_KEY # ""
    /\ reply = Reply(429, "rate limited", 0)
    /\ response.status = 429

\* C7: when the outbound call of POST /sdp raises, the response is 500 and
\* carries the text of the exception, and exactly one outbound attempt was
\* made for the request.
C7_SdpTransportError ==
    (Responded("/sdp") /\ reply.exc # "") =>
        /\ response.status = 500
        /\ response.text = "Proxy error: " \o reply.exc
        /\ Len(calls) = 1

C7_Witness ==
    /\ Responded("/sdp")
    /\ reply = Raises("timed out")
    /\ response.status = 500

\* the request is POST /tool image.generate with an empty or missing prompt
EmptyPromptRequest ==
    /\ request.path = "/tool"
    /\ request.name = "image.generate"
    /\ PyGet(ArgsOf(request), "prompt", PStr(<<>>)) = PStr(<<>>)

\* C8 as stated: image.generate with an empty or missing prompt answers 400
\* without an outbound call, in every configuration of the service.
C8_EmptyPromptAlways400 ==
    EmptyPromptRequest =>
        /\ pc = "responded"
        /\ response.status = 400
        /\ calls = <<>>

\* C8 amended: image.generate with an empty or missing prompt answers 400
\* when the voice-provider credential is configured and 500 when it is not;
\* in both cases no outbound call is attempted.
C8_EmptyPromptRejected ==
    EmptyPromptRequest =>
        /\ pc = "responded"
        /\ response.status = IF OPENAI_API_KEY = "" THEN 500 ELSE 400
        /\ response.success = "false"
        /\ calls = <<>>

C8_Witness ==
    /\ EmptyPromptRequest
    /\ OPENAI_API_KEY # ""
    /\ "prompt" \in DOMAIN ArgsOf(request)
    /\ "style" \in DOMAIN ArgsOf(request)
    /\ response.status = 400

\* the request is POST /tool search.web with an empty or whitespace-only query
BlankQueryRequest ==
    /\ request.path = "/tool"
    /\ request.name = "search.web"
    /\ "q" \notin DOMAIN ArgsOf(request)
    /\ LET q == PyGet(ArgsOf(request), "query", PStr(<<>>))
       IN  q.ty = "str" /\ Strip(q.w) = <<>>

\* the request is POST /tool with a name that is none of the three tools
UnknownToolRequest ==
    /\ request.path = "/tool"
    /\ request.name \notin {"image.generate", "search.web", "file.save"}

\* C9, read for a service whose voice-provider credential is configured:
\* POST /tool with an unrecognised name, or search.web with an empty or
\* whitespace-only query, answers 400 with success=false, makes no outbound
\* call and writes no file.
C9_BadRequestIs400 ==
    (OPENAI_API_KEY # "" /\ (UnknownToolRequest \/ BlankQueryRequest)) =>
        /\ pc = "responded"
        /\ response.status = 400
        /\ response.success = "false"
        /\ calls = <<>>
        /\ files = <<>>

\* C10: the response to every POST /tool request is a JSON body with a
\* boolean success field, and an error string when success is false; no
\* exception leaves the handler.
C10_StructuredResponse ==
    Responded("/tool") =>
        /\ ~response.raised
        /\ response.media = "application/json"
        /\ response.success \in {"true", "false"}
        /\ response.success = "false" => response.text # ""

\* a step in which the time API answers the direct time resolver with r
TimeApiAnswers200 ==
    /\ pc = "time"
    /\ reply'.exc = ""
    /\ reply'.status = 200

\* the request is answered from the time API alone: a time-typed success
\* carrying the zone of the place, after the one call to the time API
TimeShortCircuit ==
    /\ pc' = "responded"
    /\ response'.success = "true"
    /\ response'.type = "time"
    /\ response'.detail = loc.place \o <<loc.tz>>
    /\ calls' = <<Call(WorldTimeUrl(loc.tz), <<>>)>>

\* the direct time resolver is waiting for the time API exactly when the
\* query of a search.web request names a place that maps to a zone
TimeResolverFirst ==
    pc' = "time" =>
        /\ request'.name = "search.web"
        /\ loc'.tz # ""
        /\ loc'.tz = Resolve(loc'.query).tz
        /\ calls' = <<Call(WorldTimeUrl(loc'.tz), <<>>)>>

\* C11 as stated: when the query of a search.web request matches the
\* time-intent pattern, its place maps to a zone and the time API answers
\* 200, the response is a time-typed success carrying that zone and no search
\* provider is called during the request.
C11_TimeShortCircuitOn200 ==
    [][ TimeResolverFirst /\ (TimeApiAnswers200 => TimeShortCircuit) ]_vars

\* C11 amended: the same, when the time API answers 200 with a JSON body;
\* a 200 whose body is not JSON is taken as a failure of the time API and
\* the request falls through to the search provider.
C11_TimeShortCircuit ==
    [][ /\ TimeResolverFirst
        /\ (TimeApiAnswers200 /\ reply'.items >= 0) => TimeShortCircuit
        /\ (TimeApiAnswers200 /\ reply'.items < 0) =>
               /\ response' = NoResponse
               /\ pc' \in {"tavily", "duckduckgo", "time_fallback"} ]_vars

\* "time in Tokyo" was answered from the time API with zone Asia/Tokyo
C11_Witness ==
    /\ Responded("/tool")
    /\ request.name = "search.web"
    /\ PyGet(ArgsOf(request), "query", PNone) = PStr(<<"time", " ", "in", " ", "Tokyo">>)
    /\ calls = <<Call(WorldTimeUrl("Asia/Tokyo"), <<>>)>>
    /\ reply.status = 200
    /\ response.type = "time"
    /\ response.detail = <<"Tokyo", "Asia/Tokyo">>

\* the request is POST /tool search.web, accepted by a configured service
SearchRequest ==
    /\ request.path = "/tool"
    /\ request.name = "search.web"
    /\ OPENAI_API_KEY # ""
    /\ SearchArgs(ArgsOf(request), TAVILY_API_KEY).exc = ""
    /\ SearchArgs(ArgsOf(request), TAVILY_API_KEY).query # <<>>

\* the query and the provider the handler works with
QueryOf(req) == SearchArgs(ArgsOf(req), TAVILY_API_KEY).query
SelectedProvider(req) == SearchArgs(ArgsOf(req), TAVILY_API_KEY).provider

\* the query matches the time-intent pattern and its place maps to no zone
TimeLikeUnmapped ==
    /\ SearchRequest
    /\ PlaceTruthy(ExtractPlaceFromQuery(QueryOf(request)))
    /\ MapPlaceToTz(ExtractPlaceFromQuery(QueryOf(request)).place) = ""

\* the endpoint that serves a selected provider
ProviderUrl(provider) ==
    IF provider = <<"tavily">> /\ TAVILY_API_KEY # "" THEN TAVILY_URL ELSE DDG_URL

\* the provider answered 200 with a JSON body
ProviderSucceeded == reply.exc = "" /\ reply.status = 200 /\ reply.items >= 0

\* the time API is not called, and a provider success gives a search result
UnmappedFallsThrough ==
    /\ \A i \in 1..Len(calls) : calls[i].to \in {TAVILY_URL, DDG_URL}
    /\ (pc = "responded" /\ calls # <<>> /\ ProviderSucceeded) =>
           /\ response.success = "true"
           /\ response.type = "search"

ExplicitProvider(req) ==
    IF "provider" \in DOMAIN ArgsOf(req) /\ ArgsOf(req)["provider"].ty = "str"
    THEN Strip(Lower(ArgsOf(req)["provider"].w))
    ELSE <<>>

\* the selection policy: the explicit provider, else premium when its
\* credential is configured, else free
PolicyProvider(req) ==
    IF ExplicitProvider(req) # <<>> THEN ExplicitProvider(req)
    ELSE IF TAVILY_API_KEY # "" THEN <<"tavily">> ELSE <<"duckduckgo">>

\* premium without its credential is served by the free provider
ServingProvider(req) ==
    IF PolicyProvider(req) = <<"tavily">> /\ TAVILY_API_KEY = ""
    THEN <<"duckduckgo">> ELSE PolicyProvider(req)

\* C13: the explicit provider argument is used, otherwise premium when its
\* credential is configured, else free.  Premium selected without its
\* credential is served by the free provider: premium is never called, no
\* failure arises other than from an upstream answer, and the search result
\* reports the free provider.
C13_ProviderSelection ==
    SearchRequest =>
        /\ \A i \in 1..Len(calls) :
              /\ calls[i].to = TAVILY_URL =>
                     /\ PolicyProvider(request) = <<"tavily">>
                     /\ TAVILY_API_KEY # ""
              /\ calls[i].to = DDG_URL =>
                     ServingProvider(request) = <<"duckduckgo">>
        /\ pc = "tavily" => ServingProvider(request) = <<"tavily">>
        /\ pc \in {"duckduckgo", "duckduckgo_retry"} =>
               ServingProvider(request) = <<"duckduckgo">>
        /\ (pc = "responded" /\ response.type = "search") =>
               /\ response.detail = ServingProvider(request)
               /\ ServingProvider(request) \in {<<"tavily">>, <<"duckduckgo">>} =>
                      \E i \in 1..Len(calls) :
                          calls[i].to = ProviderUrl(ServingProvider(request))
        /\ (pc = "responded" /\ response.success = "false") =>
               /\ calls # <<>>
               /\ calls[Len(calls)].to = ProviderUrl(ServingProvider(request))
               /\ ~ProviderSucceeded

\* premium was asked for by name without its credential, and the free
\* provider served the request
C13_Witness ==
    /\ SearchRequest
    /\ TAVILY_API_KEY = ""
    /\ PyGet(ArgsOf(request), "provider", PNone) = PStr(<<"Tavily">>)
    /\ pc = "responded"
    /\ calls = <<Call(DDG_URL, QueryOf(request))>>
    /\ response.success = "true"
    /\ response.type = "search"
    /\ response.detail = <<"duckduckgo">>

(***************************************************************************)
(* Properties of the event loop                                            *)
(***************************************************************************)
\* a handler waits for an upstream call that has not returned
WaitingUpstream == pc \notin {"idle", "responded"}

\* C14: while one /tool or /sdp request waits on an upstream call that
\* hangs, any other request that has arrived can be processed without the
\* hung call returning or timing out.
C14_OthersNotBlocked ==
    (WaitingUpstream /\ accepted # <<>>) => ENABLED Serve

(***************************************************************************)
(* Properties of the dedup key                                             *)
(***************************************************************************)
\* the same members with the same values at every nesting level
RECURSIVE SameValue(_, _)
SameValue(a, b) ==
    IF a.t = "obj" /\ b.t = "obj"
    THEN /\ {a.o[i][1] : i \in 1..Len(a.o)} = {b.o[i][1] : i \in 1..Len(b.o)}
         /\ \A i \in 1..Len(a.o) : SameValue(a.o[i][2], Get(b, a.o[i][1]))
    ELSE a = b

BothKeyed == keyed[1] # "" /\ keyed[2] # ""

\* C15: two tool calls of one name whose args have the same members with
\* the same values at every nesting level have the same dedup key whatever
\* the insertion order of the members, and two tool calls that differ in
\* their name or in a value of their args have different keys.
C15_KeyIsCanonical ==
    BothKeyed =>
        (keyed[1] = keyed[2] <=>
            /\ compared[1].name = compared[2].name
            /\ SameValue(compared[1].args, compared[2].args))

\* one key for two calls whose members differ in order at both levels
C15_Witness ==
    /\ BothKeyed
    /\ keyed[1] = keyed[2]
    /\ compared[1] =
           ToolCall("image.generate",
                    Obj(<< <<"size", Str("small")>>,
                           <<"args", Obj(<< <<"style", Str("anime")>>,
                                            <<"prompt", Str("a")>> >>)>> >>))
    /\ compared[2] =
           ToolCall("image.generate",
                    Obj(<< <<"args", Obj(<< <<"prompt", Str("a")>>,
                                            <<"style", Str("anime")>> >>)>>,
                           <<"size", Str("small")>> >>))
    /\ keyed[1] = "image.generate|{\"args\":{\"prompt\":\"a\",\"style\":\"anime\"},\"size\":\"small\"}"

\* C16: every key of the in-flight set is a key of the dedup map, after any
\* sequence of submissions and completions.
C16_InFlightWithinDedup == inFlightTools \subseteq DOMAIN recentTools

\* two keys are in flight, and the request of one of them has completed
C16_Witness ==
    /\ Cardinality(inFlightTools) = 2
    /\ \E k \in inFlightTools : Count(pendingTool, k) = 0
    /\ \E k \in inFlightTools : Count(pendingTool, k) = 1

(***************************************************************************)
(* Properties of file.save                                                 *)
(***************************************************************************)
\* the request is POST /tool file.save with text arguments, accepted by a
\* configured service
SaveRequest ==
    /\ request.path = "/tool"
    /\ request.name = "file.save"
    /\ OPENAI_API_KEY # ""
    /\ \A k \in {"filename", "format", "type"} :
           PyGet(ArgsOf(request), k, PStr(<<>>)).ty = "str"

\* the text of an argument, "" when it is absent
ArgText(req, k) == Strip(PyGet(ArgsOf(req), k, PStr(<<>>)).w)

\* the explicit format (or type) argument, in lower case
ExplicitFormat(req) ==
    Lower(IF ArgText(req, "format") # <<>> THEN ArgText(req, "format")
          ELSE ArgText(req, "type"))

\* the extension of a filename, without its dot
ExtensionOf(filename) == LStripDots(SplitExt(filename)[2])

\* the alias table: doc, ppt, xls, markdown and text name docx, pptx,
\* xlsx, md and txt
Normalised(fmt) ==
    IF fmt = <<"doc">> THEN <<"docx">>
    ELSE IF fmt = <<"ppt">> THEN <<"pptx">>
    ELSE IF fmt = <<"xls">> THEN <<"xlsx">>
    ELSE IF fmt = <<"markdown">> THEN <<"md">>
    ELSE IF fmt = <<"text">> THEN <<"txt">>
    ELSE fmt

\* the explicit format when non-empty, otherwise the extension of the
\* filename in lower case; then the alias table
DerivedFormat(req) ==
    Normalised(IF ExplicitFormat(req) # <<>> THEN ExplicitFormat(req)
               ELSE Lower(ExtensionOf(ArgText(req, "filename"))))

\* the name with its extension replaced by the format
Renamed(filename, fmt) == SplitExt(filename)[1] \o <<".">> \o fmt

\* the response of a file.save request whose format is fmt and whose file is
\* to be called written
SavedAs(fmt, written) ==
    IF fmt = <<>> THEN response.status = 400 /\ files = <<>>
    ELSE IF fmt \notin TextFormats \cup DocumentFormats
    THEN response.status = 400 /\ files = <<>>
    ELSE IF response.success = "true"
    THEN /\ response.type = "file"
         /\ response.text = fmt[1]
         /\ response.detail = Strip(Sanitize(written))
         /\ files = <<response.detail>>
    ELSE response.status = 500 /\ files = <<>>

\* C17 as stated: the format is the explicit format (or type) argument when
\* non-empty, otherwise the extension of the filename, normalised by the
\* alias table; whenever the extension of the filename differs from the
\* normalised format it is replaced by the format in the written filename.
C17_ExtensionReplacedWhenDifferent ==
    (SaveRequest /\ pc = "responded" /\ ArgText(request, "filename") # <<>>) =>
        SavedAs(DerivedFormat(request),
                IF ExtensionOf(ArgText(request, "filename")) # DerivedFormat(request)
                THEN Renamed(ArgText(request, "filename"), DerivedFormat(request))
                ELSE ArgText(request, "filename"))

\* C17 amended: the same, the format being taken in lower case and the
\* extension compared with it without regard to case: an extension that is
\* the format in another case is kept as it is.
C17_FormatDerivation ==
    (SaveRequest /\ pc = "responded" /\ ArgText(request, "filename") # <<>>) =>
        SavedAs(DerivedFormat(request),
                IF Lower(ExtensionOf(ArgText(request, "filename"))) # DerivedFormat(request)
                THEN Renamed(ArgText(request, "filename"), DerivedFormat(request))
                ELSE ArgText(request, "filename"))

\* report.PDF saved with format doc was written as report.docx
C17_Witness ==
    /\ SaveRequest
    /\ pc = "responded"
    /\ ArgText(request, "filename") = <<"report", ".", "PDF">>
    /\ ArgText(request, "format") = <<"doc">>
    /\ response.success = "true"
    /\ response.text = "docx"
    /\ files = << <<"report", ".", "docx">> >>

(***************************************************************************)
(* Properties of the streamed response                                     *)
(***************************************************************************)
\* the text looks like JSON
LooksLikeJSON(u) == Len(u) > 0 /\ u[1].k = "{"

\* no object of the text is a tool call and no phrase rule meets it: the
\* text does not parse, or parses to no known tool shape
NamesNoTool(u) ==
    /\ FirstToolOf(ScanCandidates(u)) = NoTool
    /\ NormalizeTool(JSONParse(u)) = NoTool
    /\ DetectFromText(u) = NoTool

\* C18: an assistant text that looks like JSON but fails to parse, or parses
\* to no known tool shape, triggers no tool call and is never appended to
\* the transcript, whether it arrives as text deltas or in a completed text
\* or transcript event.
C18_JsonMissDiscarded ==
    (LooksLikeJSON(utterance) /\ NamesNoTool(utterance)) =>
        /\ issued = <<>>
        /\ shown = <<>>

\* {name: 'search.web', args: {query: q, max_results: n}}
SearchFor(q, n) ==
    ToolCall("search.web", Obj(<< <<"query", Str(q)>>, <<"max_results", Num(n)>> >>))

\* the tool call of each phrase rule for a text, NoTool where the rule does
\* not match, in the order of the rules: search("..."), "search for ...",
\* time phrasing, JSON query payload, current-info heuristic, image phrasing.
\* first: the search("...") occurrence the first rule reads, 0 for none
RuleCalls(txt, first) ==
    << IF first # 0 THEN SearchFor(txt[first].a, "6") ELSE NoTool,
       IF HasFilled(txt, "searchfor")
       THEN SearchFor(txt[FirstTok(txt, "searchfor")].a, "6") ELSE NoTool,
       IF HasFilled(txt, "timein")
       THEN SearchFor("current time in " \o txt[FirstTok(txt, "timein")].a, "3")
       ELSE NoTool,
       IF HasTok(txt, "\\{") /\ HasQueryMember(txt)
       THEN NormalizeTool(JSONParse(txt)) ELSE NoTool,
       IF HasTok(txt, "recency") /\ HasTok(txt, "topic")
       THEN SearchFor(TextOf(txt), "6") ELSE NoTool,
       IF HasFilled(txt, "imageof")
       THEN ToolCall("image.generate",
                     Obj(<< <<"prompt", Str(txt[FirstTok(txt, "imageof")].a)>>,
                            <<"size", Str("1024x1024")>> >>
                         \o (IF Truthy(SniffStyle(txt))
                             THEN << <<"style", SniffStyle(txt)>> >> ELSE <<>>)))
       ELSE NoTool >>

\* the call of the first rule that matches, NoTool when none does
FirstRuleCall(rc) ==
    IF \A n \in 1..Len(rc) : rc[n] = NoTool THEN NoTool
    ELSE rc[CHOOSE n \in 1..Len(rc) :
                rc[n] # NoTool /\ \A m \in 1..(n - 1) : rc[m] = NoTool]

\* the first search("q") of the text with a non-empty q, 0 when there is none
FirstFilledSearch(txt) ==
    IF HasFilled(txt, "search(") THEN FirstTok(txt, "search(") ELSE 0

\* the leftmost search("...") of the text when its q is not empty, 0 otherwise
LeftmostFilledSearch(txt) ==
    IF HasTok(txt, "search(") /\ txt[Leftmost(txt, "search(")].a # ""
    THEN Leftmost(txt, "search(") ELSE 0

\* the completed text reaches detectAndRunFromText: the response has had no
\* tool call yet
DetectStep ==
    /\ parts = <<>>
    /\ nEvents' = nEvents + 1
    /\ ~Has(handledResponseIds, "resp_1")

\* detectAndRunFromText hands exactly the call to runAndRender; when no
\* rule matches a text without a "query" member, no tool call is made
Yields(call) ==
    IF call # NoTool
    THEN /\ submitted'.key = KeyOf(call)
         /\ issued' = Inc(issued, KeyOf(call))
    ELSE ~HasQueryMember(utterance) =>
             /\ submitted' = NotSubmitted
             /\ issued' = issued

\* C19 as stated: a text containing search("q") with a non-empty q yields
\* the tool call search.web {query: q, max_results: 6}; the rules are tried
\* in their fixed order and exactly the first one that matches produces the
\* single tool call.
C19_AnySearchCallWins ==
    [][ DetectStep =>
          Yields(FirstRuleCall(RuleCalls(utterance, FirstFilledSearch(utterance)))) ]_vars

\* C19 amended: the first rule reads the leftmost search("...") of the text
\* only: with a non-empty q it yields search.web {query: q, max_results: 6};
\* with an empty q the rule does not match, whatever search("q") follows,
\* and the later rules are tried in their order.
C19_FirstRuleWins ==
    [][ DetectStep =>
          Yields(FirstRuleCall(RuleCalls(utterance, LeftmostFilledSearch(utterance)))) ]_vars

\* a text that meets the time rule and holds two search("...") calls gave
\* the search for the first of them
C19_Witness ==
    /\ utterance = <<Tok("timein", "tokyo", ""), SearchCall("a"), SearchCall("b")>>
    /\ lastEvent.type = "response.text.done"
    /\ submitted.key = "search.web|{\"max_results\":6,\"query\":\"a\"}"
    /\ DOMAIN issued = {submitted.key}

\* the tool call the delta handler dispatches when the whole text arrives in
\* a single delta
WholeCall(u) == DeltaPath(Event(kind \o ".delta", "resp_1", u, Obj(<<>>)), <<>>).run

\* every delta of the text has arrived and the completed event has not
AllDeltasArrived ==
    /\ parts = <<>>
    /\ lastEvent.type = kind \o ".delta"

\* C20: for a text that holds a balanced JSON tool object, flat or nested,
\* and for every division of the text into consecutive deltas, the delta
\* handler dispatches the tool call it dispatches when the whole text
\* arrives in a single delta.
C20_SplitIndependent ==
    (AllDeltasArrived /\ WholeCall(utterance) # NoTool) =>
        issued = Inc(<<>>, KeyOf(WholeCall(utterance)))

(***************************************************************************)
(* Properties of the dispatch order                                        *)
(***************************************************************************)
\* a step that issues a /tool request, and a step in which one settles
DispatchStep == issued' # issued
SettleStep == \E k \in DOMAIN pendingTool : Count(pendingTool', k) < pendingTool[k]

Sends(w, m) == \E i \in 1..Len(w) : w[i] = m

\* C21: when the data channel is open and an assistant response is active,
\* a dispatch sends response.cancel and then issues the /tool request; a
\* response.create is sent only by the completion of a /tool request that
\* resolved with success=true and type search or time, never by a dispatch,
\* a failed result, a rejected request or an image result.
C21_CancelThenToolThenCreate ==
    [][ /\ (DispatchStep /\ dcState = "open" /\ activeResponseId' # NoRid)
              => wire' = <<"response.cancel", "/tool">>
        /\ DispatchStep => wire'[Len(wire')] = "/tool" /\ ~Sends(wire', "response.create")
        /\ (wire' # wire /\ Sends(wire', "response.create"))
              => /\ SettleStep
                 /\ settledWith'.settled = "resolved"
                 /\ settledWith'.success
                 /\ settledWith'.type \in {"search", "time"}
      ]_vars

\* the search result of one request was sent back for a spoken answer, and
\* a later dispatch cancelled the active response before its /tool request
C21_Witness ==
    /\ wire = <<"response.cancel", "/tool">>
    /\ dcState = "open"
    /\ activeResponseId # NoRid
    /\ settledWith = ToolResult("resolved", TRUE, "search", TRUE)

(***************************************************************************)
(* Properties of the provider chain                                        *)
(***************************************************************************)
\* the outbound calls made to a provider for the request
CallsTo(cs, url) == Cardinality({i \in 1..Len(cs) : cs[i].to = url})

\* the call the handler is blocked in at pc returns in this step
Returns(at) == pc = at /\ pc' # pc

\* the first characters of an upstream body
FirstChars(body) ==
    IF Len(body) > BODY_LIMIT THEN SubSeq(body, 1, BODY_LIMIT) ELSE body

\* an error text that carries the status and the truncated body of a reply
CarriesUpstream(text, first) ==
    \E mark \in {"", Ellipsis} :
        text = "provider=duckduckgo status=" \o ToString(first.status)
                   \o " body=" \o FirstChars(first.text) \o mark

\* C22: whenever the first response of the free provider has a status other
\* than 200 the request is retried exactly once; when the retry is not 200
\* either, or raises, the response is success=false with the upstream status
\* and the upstream body truncated to 500 characters; the free provider is
\* called at most twice and the premium provider at most once per request.
C22_RetryOnceOnNon200 ==
    [][ /\ (Returns("duckduckgo") /\ reply'.exc = "" /\ reply'.status # 200)
              => /\ pc' = "duckduckgo_retry"
                 /\ calls' = Append(calls, Call(DDG_URL, loc.query))
        /\ (Returns("duckduckgo_retry") /\ (reply'.exc # "" \/ reply'.status # 200))
              => /\ pc' = "responded"
                 /\ response'.success = "false"
                 /\ response'.status = loc.first.status
                 /\ CarriesUpstream(response'.text, loc.first)
                 /\ CallsTo(calls', DDG_URL) = 2
        /\ CallsTo(calls', DDG_URL) <= 2
        /\ CallsTo(calls', TAVILY_URL) <= 1
      ]_vars

\* the direct time resolver's call to the time API fails in this step
TimeApiFails == Returns("time") /\ (reply'.exc # "" \/ reply'.status # 200)

\* the stage of a provider
StageOf(provider) == IF provider = <<"tavily">> THEN "tavily" ELSE "duckduckgo"

\* the step answers nothing and calls the provider that serves the request
CallsServing ==
    /\ response' = NoResponse
    /\ pc' = StageOf(ServingProvider(request))
    /\ calls' = Append(calls, Call(ProviderUrl(ServingProvider(request)), loc.query))

\* a failure response of a search that called the time API first is the
\* answer to a provider's reply
FailureIsProviders ==
    ( /\ pc' = "responded" /\ pc # "responded"
      /\ request.name = "search.web"
      /\ calls' # <<>> /\ calls'[1].to = WorldTimeUrl(loc.tz)
      /\ response'.success = "false" )
    => pc \in {"tavily", "duckduckgo", "duckduckgo_retry"}

EntersFallback == pc' = "time_fallback" /\ pc # "time_fallback"

\* the query is time-like and its place maps to a zone
TimeLikeMapped == Resolve(loc.query).tz # ""

\* the number of calls to the time API among the calls
TimeCalls(cs) == Cardinality({i \in 1..Len(cs) : cs[i].to = WorldTimeUrl(loc.tz)})

\* the free provider answers in this step with a structured response that
\* has no abstract and no related topics
FreeAnswersEmpty ==
    /\ reply'.exc = ""
    /\ \/ Returns("duckduckgo") /\ reply'.status = 202
       \/ /\ Returns("duckduckgo") \/ Returns("duckduckgo_retry")
          /\ reply'.status = 200
          /\ reply'.items = 0

\* the provider search ends in this step with an empty result list: no
\* provider serves the request, or the provider's results cut to max_results
\* are none
SearchEndsEmpty ==
    \/ /\ Returns("time")
       /\ ~(reply'.exc = "" /\ reply'.status = 200 /\ reply'.items >= 0)
       /\ ServingProvider(request) \notin {<<"tavily">>, <<"duckduckgo">>}
    \/ /\ reply'.exc = ""
       /\ Returns("duckduckgo") /\ reply'.status = 202
    \/ /\ reply'.exc = ""
       /\ Returns("tavily") \/ Returns("duckduckgo") \/ Returns("duckduckgo_retry")
       /\ reply'.status = 200
       /\ reply'.items >= 0
       /\ Slice(reply'.items, loc.max_results) = 0

TableZone(req) ==
    CITY_TZ_MAP[CHOOSE i \in 1..Len(CITY_TZ_MAP) :
                    QueryOf(req) = TimeIn(CITY_TZ_MAP[i][1])][2]

\* C25: for every key k of the place table, single-word or multi-word, the
\* query "time in k" is taken as a time query and resolved to the zone the
\* table gives for k: the handler asks the time API for that zone first, and
\* when the time API answers 200 the result is time-typed with that zone.
C25_EveryKeyReachable ==
    [][ /\ (pc = "idle" /\ pc' # "idle")
              => /\ pc' = "time"
                 /\ calls' = <<Call(WorldTimeUrl(TableZone(request')), <<>>)>>
        /\ (Returns("time") /\ reply'.exc = "" /\ reply'.status = 200
                            /\ reply'.items >= 0)
              => /\ pc' = "responded"
                 /\ response'.success = "true"
                 /\ response'.type = "time"
                 /\ response'.detail[Len(response'.detail)] = TableZone(request)
      ]_vars

\* the place as the lookup sees it: lower-cased and trimmed
LookedUp == Strip(Lower(place))

\* the table entries whose key is the place, and whose key the place contains
ExactEntries == {i \in 1..Len(CITY_TZ_MAP) : CITY_TZ_MAP[i][1] = LookedUp}
ContainedEntries ==
    {i \in 1..Len(CITY_TZ_MAP) :
        IsSubstring(CharsOf(CITY_TZ_MAP[i][1]), CharsOf(LookedUp))}

\* C26: _map_place_to_tz gives the zone of the table key equal to the
\* lower-cased, trimmed place when there is one; otherwise the zone of the
\* first key, in table order, that the lower-cased place contains; it gives
\* None only when the place contains no table key.
C26_ExactThenFirstContained ==
    zone # "?" =>
        /\ \A i \in ExactEntries : zone = CITY_TZ_MAP[i][2]
        /\ ExactEntries = {} =>
               \A i \in ContainedEntries :
                   (\A j \in ContainedEntries : i <= j) => zone = CITY_TZ_MAP[i][2]
        /\ zone = "" <=> ContainedEntries = {}

\* "atlanta" is no table key; it contains the key "la" and no earlier one,
\* and maps to the zone of "la"
C26_Witness ==
    /\ place = <<"atlanta">>
    /\ ExactEntries = {}
    /\ zone = "America/Los_Angeles"

(***************************************************************************)
(* Properties of a suppressed submission                                   *)
(***************************************************************************)
\* the event delivered in this step submits a tool call that runAndRender
\* suppresses: its key is inside the dedup window or in flight
SuppressedSubmission ==
    /\ IsSubmission
    /\ \/ /\ Has(recentTools, submitted'.key)
          /\ now - recentTools[submitted'.key] < DEDUP_WINDOW_MS
       \/ submitted'.key \in inFlightTools

\* C27: a suppressed duplicate submission is a successful no-op: the call
\* is reported as handled, the timestamp of the key in the dedup map is not
\* refreshed, the in-flight set and the handled-turn map are unchanged, no
\* response.cancel is sent and no /tool request is issued.
C27_SuppressedIsNoOp ==
    [][ SuppressedSubmission =>
            /\ shown' = <<>>
            /\ recentTools' = recentTools
            /\ inFlightTools' = inFlightTools
            /\ handledResponseIds' = handledResponseIds
            /\ wire' = <<>>
            /\ issued' = issued
            /\ pendingTool' = pendingTool
            /\ dispatchedAt' = dispatchedAt ]_vars

\* a call was submitted again, by the other listener, 6 s after its dispatch
\* and while a response was active; the window still counts from the dispatch
C27_Witness ==
    /\ submitted.key # KeyOf(NoTool)
    /\ Has(dispatchedAt, submitted.key)
    /\ submitted.by # dispatchedAt[submitted.key].by
    /\ now = dispatchedAt[submitted.key].at + TickMs
    /\ recentTools[submitted.key] = dispatchedAt[submitted.key].at
    /\ issued[submitted.key] = 1
    /\ activeResponseId # NoRid
    /\ dcState = "open"
    /\ wire = <<>>

(***************************************************************************)
(* Properties of the search result                                         *)
(***************************************************************************)
\* the endpoint of a provider
EndpointOf(provider) == IF provider = <<"tavily">> THEN TAVILY_URL ELSE DDG_URL

\* C28: every search-typed success of search.web reports the premium or
\* the free provider, and the provider it reports was called during the
\* request; no search-typed success is returned when no provider was called.
C28_ReportedProviderWasCalled ==
    (pc = "responded" /\ response.success = "true" /\ response.type = "search")
        => /\ response.detail \in {<<"tavily">>, <<"duckduckgo">>}
           /\ CallsTo(calls, EndpointOf(response.detail)) >= 1

(***************************************************************************)
(* Properties of the dispatched names                                      *)
(***************************************************************************)
\* the tools of the proxy
ProxyTools == {"image.generate", "search.web", "file.save"}

\* the dedup key is the key of a call of the tool
KeyNames(key, tool) ==
    /\ Len(key) > Len(tool)
    /\ SubSeq(key, 1, Len(tool) + 1) = tool \o "|"

\* C29: every tool call for which a /tool request is issued has a name among
\* image.generate, search.web and file.save; an object that carries another
\* name, or another tool.name, is not dispatched.
C29_OnlyProxyTools ==
    \A key \in DOMAIN issued : \E tool \in ProxyTools : KeyNames(key, tool)

(***************************************************************************)
(* Properties of the saved file                                            *)
(***************************************************************************)
\* a file.save request has been answered
SaveAnswered ==
    /\ request.path = "/tool"
    /\ request.name = "file.save"
    /\ OPENAI_API_KEY # ""
    /\ pc = "responded"

\* an argument of the request, None when it is absent
ArgOf(req, k) == PyGet(ArgsOf(req), k, PNone)

\* the request gives no format: no format or type argument, and no filename
\* whose extension could stand for it
FormatMissing(req) ==
    /\ ~PyTruthy(ArgOf(req, "format"))
    /\ ~PyTruthy(ArgOf(req, "type"))
    /\ LET filename == PyOr(ArgOf(req, "filename"), ArgOf(req, "name"))
       IN  filename.ty # "str" \/ ExtensionOf(Strip(filename.w)) = <<>>

\* the request gives a format that is not one of the nine
FormatUnsupported(req) ==
    /\ \A k \in {"filename", "name", "format", "type"} :
           ArgOf(req, k).ty \in {"str", "none"}
    /\ DerivedFormat(req) # <<>>
    /\ DerivedFormat(req) \notin TextFormats \cup DocumentFormats

\* a name of safe characters that names a direct child of a directory
SafeChildName(name) ==
    /\ name # <<>>
    /\ \A i \in 1..Len(name) : name[i] \notin UnsafeTokens
    /\ \E i \in 1..Len(name) : name[i] # "."

\* C30: for every successful file.save, whatever the filename argument, the
\* returned filename has only characters of [A-Za-z0-9._- ], ends with "."
\* followed by the returned format, the format is one of the nine, and the
\* file is written as a direct child of the output directory under that
\* name; a request whose format is missing or unsupported returns 400 and
\* writes no file.
C30_SafeNameAndFormat ==
    SaveAnswered =>
        /\ response.success = "true" =>
               /\ SafeChildName(response.detail)
               /\ Len(response.detail) >= 2
               /\ response.detail[Len(response.detail) - 1] = "."
               /\ response.detail[Len(response.detail)] = response.text
               /\ <<response.text>> \in TextFormats \cup DocumentFormats
               /\ files = <<response.detail>>
        /\ (FormatMissing(request) \/ FormatUnsupported(request)) =>
               /\ response.status = 400
               /\ files = <<>>

====
